---- MODULE Spec2Model ----
(***************************************************************************)
(* mineEye: a model of the level generator (gamestates.InGame.create_world, *)
(* generate_world, align_doors), of the navigation graph and A* search     *)
(* (helpers.Graph, helpers.Queue, enemy.Enemy) and of the rigid-world      *)
(* physics (world.World).  Each subsystem has its own variables and its    *)
(* own specification; a specification leaves the other subsystems'         *)
(* variables untouched.                                                     *)
(*                                                                         *)
(* A Python str is modelled as the sequence of its characters, a Python    *)
(* list as a sequence, and Python's 0-based indices are kept where the     *)
(* code computes with them (str.find).                                     *)
(***************************************************************************)
EXTENDS Integers, Sequences, FiniteSets, TLC

VARIABLES
  gen,        \* generate_world's locals: n, i, room_list, the three counters, pc
  rng,        \* the state of Python's global PRNG: [seed, pos]
  tape,       \* the PRNG outputs observed so far, by PRNG state
  runs,       \* the create_world calls, in order, with what each returned
  aligned,    \* one align_doors call: its room_list and the grid it returned
  game,       \* the World object and the Hero object: [world, hero]
  pre,        \* the game as it was when the last operation on it began
  last,       \* the last operation on the game and its arguments
  search      \* the last a_star / reconstruct_path call: arguments and results

levelvars == <<gen, rng, tape, runs, aligned>>

worldvars == <<game, pre, last, search>>

vars == <<gen, rng, tape, runs, aligned, game, pre, last, search>>

\* before InGame.create_world has built a world
NoGame == <<>>

NoOp == [op |-> "none"]

NoSearch == [op |-> "none"]

WorldUnbuilt ==
  /\ game = NoGame
  /\ pre = NoGame
  /\ last = NoOp
  /\ search = NoSearch

(***************************************************************************)
(* Generic helpers                                                         *)
(***************************************************************************)
Last(s) == s[Len(s)]

Abs(k) == IF k < 0 THEN -k ELSE k

MinOf(S) == CHOOSE m \in S : \A k \in S : m <= k

(***************************************************************************)
(* rooms.py: the direction tags and the room catalog.  A room is the list  *)
(* [tag, row, row, ...]; each row is a sequence of one-character strings.  *)
(***************************************************************************)
MoveRight == 0

MoveLeft == 1

MoveDown == 2

StartingRoom ==
  << MoveRight,
     <<"S","S","S","S","S","S","S","S">>,
     <<"S"," "," "," "," "," ","F","S">>,
     <<"S","W"," "," "," "," "," ","S">>,
     <<"S","S","S","S","S","D","D","S">> >>

EndingRoom ==
  << MoveDown,
     <<"S","S","S","D","D","S","S","S">>,
     <<"S"," "," "," "," "," "," ","S">>,
     <<"S"," "," "," "," "," "," ","S">>,
     <<"S","P"," "," "," "," ","P","S">>,
     <<"P"," "," "," "," "," "," ","P">>,
     <<"S","S","T","T","T","T","S","S">> >>

Room01 ==
  << MoveDown,
     <<"S","S","D","D","S","S">>,
     <<"S"," "," "," "," ","S">>,
     <<"S"," "," "," "," ","S">>,
     <<"S","S"," "," "," ","S">>,
     <<"S"," "," "," "," ","S">>,
     <<"S"," "," "," ","S","S">>,
     <<"S"," "," "," "," ","S">>,
     <<"S"," ","S"," ","S","S">>,
     <<"S"," "," "," "," ","S">>,
     <<"S"," "," "," "," ","S">>,
     <<"S","S","D","D","S","S">> >>

Room02 ==
  << MoveLeft,
     <<"S","S","S","S","S","S","S","S","S","D","D","S">>,
     <<"P"," "," "," "," "," "," "," "," "," "," ","P">>,
     <<"P"," "," "," "," "," "," ","W","S"," "," ","P">>,
     <<"S","S","D","D","S","S","S","S","S","S","S","S">> >>

Room03 ==
  << MoveRight,
     <<"S","S","D","D","S","S","S","S","S","S","S","S">>,
     <<"S"," "," "," "," "," "," "," "," "," "," ","P">>,
     <<"S"," "," "," "," "," ","B"," "," "," "," ","P">>,
     <<"S","S","S","S","S","S","S","S","S","D","D","S">> >>

Room04 ==
  << MoveRight,
     <<"S","S","D","D","S","S","S","S","S","S","S","S","S","S","S","S","S">>,
     <<"S"," "," "," "," "," "," "," "," "," "," "," "," "," "," "," ","S">>,
     <<"S","R"," "," "," "," "," "," "," "," "," "," "," "," "," "," ","S">>,
     <<"S"," "," "," "," "," ","S","S","S","S","S","S","S"," "," "," ","S">>,
     <<"S"," "," "," "," "," "," ","S"," "," "," ","S"," "," "," "," ","S">>,
     <<"S"," "," "," "," ","S"," ","R"," ","S"," "," "," "," "," "," ","S">>,
     <<"S","S","S","S","S","S","S","S","S","S","S","S","S","D","D","S","S">> >>

Room05 ==
  << MoveLeft,
     <<"S","S","S","S","S","S","S","S","S","S","S","S","S","S","S","D","D","S">>,
     <<"S"," "," "," "," "," "," "," "," "," "," "," "," "," "," "," "," ","S">>,
     <<"S"," "," "," "," "," "," "," "," "," "," "," "," "," "," "," "," ","S">>,
     <<"S"," "," "," "," "," "," "," "," "," "," "," "," "," "," "," "," ","S">>,
     <<"S"," "," "," ","S","S","S","S","S","S","S","S","P"," "," ","S","S","S">>,
     <<"S"," "," "," "," ","S"," "," "," ","S"," "," "," ","S"," "," "," ","S">>,
     <<"S"," "," ","B"," "," "," ","B"," "," "," ","B"," "," "," "," "," ","S">>,
     <<"S","D","D","S","S","S","S","S","S","S","S","S","S","S","S","S","S","S">> >>

Room06 ==
  << MoveRight,
     <<"S","S","D","D","S","S","S","S","S","S","S","S">>,
     <<"S"," "," "," "," "," "," "," "," "," "," ","S">>,
     <<"S"," "," "," "," "," "," ","B"," "," "," ","S">>,
     <<"S"," "," ","G"," "," ","B","B"," "," "," ","S">>,
     <<"S","S","S","S","S","S","S","S","D","D","S","S">> >>

Room07 ==
  << MoveDown,
     <<"S","S","D","D","S","S">>,
     <<"S"," "," "," "," ","S">>,
     <<"S"," "," "," "," ","S">>,
     <<"S"," "," "," "," ","S">>,
     <<"S"," "," "," "," ","S">>,
     <<"S","R"," "," ","R","S">>,
     <<"S"," "," "," "," ","S">>,
     <<"S"," ","B","B","B","S">>,
     <<"S"," "," "," "," ","S">>,
     <<"S","B","B","B"," ","S">>,
     <<"S"," "," "," "," ","S">>,
     <<"S"," "," "," "," ","S">>,
     <<"S","S","D","D","S","S">> >>

Room08 ==
  << MoveLeft,
     <<"S","S","S","S","S","S","S","S","S","S","S","D","D","S","S","S">>,
     <<"S"," "," "," "," "," "," "," ","R"," "," "," "," "," "," ","S">>,
     <<"S"," "," "," ","B"," "," "," "," "," "," "," "," "," "," ","S">>,
     <<"S","S"," "," ","B","B"," "," "," "," "," "," "," "," "," ","S">>,
     <<"S","S","D","D","S","S","S","S","S","S","S","S","S","S","S","S">> >>

room_dict ==
  [k \in {"StartingRoom", "EndingRoom", "Room01", "Room02", "Room03", "Room04",
          "Room05", "Room06", "Room07", "Room08"} |->
     CASE k = "StartingRoom" -> StartingRoom
       [] k = "EndingRoom" -> EndingRoom
       [] k = "Room01" -> Room01
       [] k = "Room02" -> Room02
       [] k = "Room03" -> Room03
       [] k = "Room04" -> Room04
       [] k = "Room05" -> Room05
       [] k = "Room06" -> Room06
       [] k = "Room07" -> Room07
       [] k = "Room08" -> Room08]

\* sorted(r.room_dict.items()): the keys in Python's string order
\* ('E' < 'R' < 'S', then the digits).
sorted_room_keys ==
  <<"EndingRoom", "Room01", "Room02", "Room03", "Room04", "Room05", "Room06",
    "Room07", "Room08", "StartingRoom">>

\* constants.MOVE_DOWN / MOVE_LEFT / MOVE_RIGHT, which generate_world compares
\* a room's tag with.  constants.py as shipped does not define them; they are
\* taken to be the tags the catalog itself uses.
MOVE_DOWN == MoveDown

MOVE_LEFT == MoveLeft

MOVE_RIGHT == MoveRight

(***************************************************************************)
(* Bounds                                                                  *)
(***************************************************************************)
MaxRooms == 6        \* generate_world(n) is explored for n in 1..MaxRooms

MaxRaw == 10         \* a PRNG output is one of 0..MaxRaw

MaxSeed == 1         \* seeds 1..MaxSeed

MaxSeededRooms == 2  \* create_world(n) is explored for n in 1..MaxSeededRooms

MaxDraws == 4        \* PRNG positions explored after a (re)seed

MaxRuns == 2         \* create_world calls per behaviour

MaxAlignRooms == 3   \* align_doors is explored on worlds of 0..MaxAlignRooms rooms

MaxOtherDraws == 2   \* draws by other code between two (re)seeds

RawVals == 0..MaxRaw

(***************************************************************************)
(* The PRNG.  random.seed(s) puts the generator in a state that depends on *)
(* s alone; every draw returns a value that is a function of the state and *)
(* advances the state.  The state is [seed, pos]; the output function is   *)
(* unknown but fixed, so it is discovered lazily and recorded on the tape. *)
(* random.choice and random.randint reduce one output to their range.      *)
(***************************************************************************)
random_seed_skipped(r, s) == r      \* mutant: the PRNG is not reseeded

random_seed(r, s) == [seed |-> s, pos |-> 0]

advance(r) == [r EXCEPT !.pos = @ + 1]

random_choice(seq, raw) == seq[(raw % Len(seq)) + 1]

random_randint(a, b, raw) == a + (raw % (b - a + 1))

(***************************************************************************)
(* gamestates.InGame.generate_world                                        *)
(***************************************************************************)
possible_rooms_unfiltered == sorted_room_keys   \* mutant: no key is excluded

possible_rooms ==
  LET Keep(k) == k \notin {"StartingRoom", "EndingRoom", "TransitionRoom"}
  IN  SelectSeq(sorted_room_keys, Keep)

\* the state of the locals before the for loop
\* (range(n) is empty for n = 0: EndingRoom is appended at once)
generate_world_begin(n) ==
  [n |-> n, i |-> 0,
   room_list |-> IF n = 0 THEN <<"StartingRoom", "EndingRoom">> ELSE <<"StartingRoom">>,
   move_down_counter |-> 0, move_left_counter |-> 0, move_right_counter |-> 0,
   pc |-> IF n = 0 THEN "done" ELSE "sampling"]

down_allowed_one_more(counter) == counter <= 3   \* mutant: off by one

down_allowed(counter) == counter <= 2

left_allowed(counter) == counter <= 4

right_allowed(counter) == counter <= 4

\* mutant: the two elif branches are missing
passes_limit_down_only(g, cand) ==
  room_dict[cand][1] = MOVE_DOWN /\ down_allowed(g.move_down_counter)

\* the tag test and the run-length test of one candidate
passes_limit(g, cand) ==
  LET tag == room_dict[cand][1]
  IN  \/ tag = MOVE_DOWN /\ down_allowed(g.move_down_counter)
      \/ tag = MOVE_LEFT /\ left_allowed(g.move_left_counter)
      \/ tag = MOVE_RIGHT /\ right_allowed(g.move_right_counter)

\* possible_next_room == room_list[-1]: list equality, by content
same_room(g, cand) == room_dict[cand] = room_dict[Last(g.room_list)]

\* whether this iteration calls random.randint(0, 10)
draws_test(g, cand) == passes_limit(g, cand) /\ same_room(g, cand)

\* mutant: the counters of the other two directions are not reset
accept_room_no_reset(g, cand) ==
  LET tag == room_dict[cand][1]
      rl == Append(g.room_list, cand)
      last_slot == g.i + 1 = g.n
  IN  [g EXCEPT
         !.room_list = IF last_slot THEN Append(rl, "EndingRoom") ELSE rl,
         !.move_down_counter = IF tag = MOVE_DOWN THEN @ + 1 ELSE @,
         !.move_left_counter = IF tag = MOVE_LEFT THEN @ + 1 ELSE @,
         !.move_right_counter = IF tag = MOVE_RIGHT THEN @ + 1 ELSE @,
         !.i = @ + 1,
         !.pc = IF last_slot THEN "done" ELSE "sampling"]

\* room_list.append(...), the three counter updates, matched = True; the for
\* loop then moves to the next slot, and after the last slot EndingRoom is
\* appended and the list returned.
accept_room(g, cand) ==
  LET tag == room_dict[cand][1]
      rl == Append(g.room_list, cand)
      last_slot == g.i + 1 = g.n
  IN  [g EXCEPT
         !.room_list = IF last_slot THEN Append(rl, "EndingRoom") ELSE rl,
         !.move_down_counter = IF tag = MOVE_DOWN THEN @ + 1 ELSE 0,
         !.move_left_counter = IF tag = MOVE_LEFT THEN @ + 1 ELSE 0,
         !.move_right_counter = IF tag = MOVE_RIGHT THEN @ + 1 ELSE 0,
         !.i = @ + 1,
         !.pc = IF last_slot THEN "done" ELSE "sampling"]

\* one pass of the body of 'while not matched': cand is the room drawn by
\* random.choice, test the value drawn by random.randint when it is called
sample_room(g, cand, test) ==
  IF passes_limit(g, cand)
  THEN IF same_room(g, cand)
       THEN IF test >= 5 THEN accept_room(g, cand) ELSE g
       ELSE accept_room(g, cand)
  ELSE g

(***************************************************************************)
(* gamestates.InGame.align_doors                                           *)
(***************************************************************************)
\* str.find('DD'): the 0-based index of the first "DD", or -1
find_DD(row) ==
  LET hits == {k \in 1..(Len(row) - 1) : row[k] = "D" /\ row[k + 1] = "D"}
  IN  IF hits = {} THEN -1 ELSE MinOf(hits) - 1

\* "&" * k + row   (Python's "&" * k is "" for k <= 0)
pad_row(k, row) == [j \in 1..k |-> "&"] \o row

\* mutant: only the entrance row of the incoming room is padded
pad_new_room_entrance_only(room_array, room, door_location) ==
  room_array \o [r \in 1..Len(room) |->
                   IF r = 1 THEN pad_row(Abs(door_location), room[r]) ELSE room[r]]

\* door_location >= 0: the incoming room is pushed right
pad_new_room(room_array, room, door_location) ==
  room_array \o [r \in 1..Len(room) |-> pad_row(Abs(door_location), room[r])]

\* mutant: the rows already in the grid are left where they are
pad_room_array_unpadded(room_array, room, door_location) == room_array \o room

\* door_location < 0: every row already in the grid is pushed right
pad_room_array(room_array, room, door_location) ==
  [r \in 1..Len(room_array) |-> pad_row(Abs(door_location), room_array[r])] \o room

\* the body of 'for index, room in enumerate(room_list)'
align_room(room_array, key) ==
  LET room == Tail(room_dict[key])      \* room[1:]
  IN  IF Len(room_array) = 0
      THEN room_array \o room
      ELSE LET previous_door_location == find_DD(Last(room_array))
               new_door_location == find_DD(room[1])
               door_location == previous_door_location - new_door_location
           IN  IF door_location >= 0
               THEN pad_new_room(room_array, room, door_location)
               ELSE pad_room_array(room_array, room, door_location)

RECURSIVE align_from(_, _, _)
align_from(room_array, room_list, index) ==
  IF index > Len(room_list)
  THEN room_array
  ELSE align_from(align_room(room_array, room_list[index]), room_list, index + 1)

align_doors(room_list) == align_from(<<>>, room_list, 1)

(***************************************************************************)
(* SpecGen: generate_world(n) for n in 1..MaxRooms, every draw free.       *)
(***************************************************************************)
NoRng == [seed |-> 0, pos |-> 0]      \* the PRNG as the interpreter starts it

NoLevel == [room_list |-> <<>>, room_array |-> <<>>, pc |-> "none"]

GenInit ==
  /\ gen \in {generate_world_begin(n) : n \in 0..MaxRooms}
  /\ rng = NoRng
  /\ tape = <<>>
  /\ runs = <<>>
  /\ WorldUnbuilt
  /\ aligned = NoLevel

\* one pass of 'while not matched' with any outcome of the draws
SampleRoom ==
  /\ gen.pc = "sampling"
  /\ \E c \in RawVals :
       LET cand == random_choice(possible_rooms, c)
       IN  IF draws_test(gen, cand)
           THEN \E t \in RawVals :
                  gen' = sample_room(gen, cand, random_randint(0, 10, t))
           ELSE gen' = sample_room(gen, cand, 0)
  /\ UNCHANGED worldvars
  /\ UNCHANGED <<rng, tape, runs, aligned>>

GenNext == SampleRoom

SpecGen == GenInit /\ [][GenNext]_vars

(***************************************************************************)
(* SpecSeed: create_world(n) called MaxRuns times on games with seeds in   *)
(* 1..MaxSeed, other code drawing from the PRNG in between.                *)
(***************************************************************************)
Idle ==
  [n |-> 0, i |-> 0, room_list |-> <<>>,
   move_down_counter |-> 0, move_left_counter |-> 0, move_right_counter |-> 0,
   pc |-> "idle"]

SeedInit ==
  /\ gen = Idle
  /\ rng = NoRng
  /\ tape = <<>>
  /\ runs = <<>>
  /\ WorldUnbuilt
  /\ aligned = NoLevel

\* the values the PRNG can return in state r, given what was observed
draw_vals(tp, r) ==
  IF <<r.seed, r.pos>> \in DOMAIN tp THEN {tp[<<r.seed, r.pos>>]} ELSE RawVals

observe(tp, r, v) ==
  IF <<r.seed, r.pos>> \in DOMAIN tp THEN tp ELSE tp @@ (<<r.seed, r.pos>> :> v)

\* any other use of the random module (World.add_weapons_to_world,
\* helpers.generate_seed, ...): one draw, its value unused here
OtherDraw ==
  /\ gen.pc = "idle"
  /\ rng.pos < MaxOtherDraws
  /\ rng' = advance(rng)
  /\ UNCHANGED worldvars
  /\ UNCHANGED <<gen, tape, runs, aligned>>

\* create_world up to the call of generate_world: random.seed(self.seed)
CreateWorld(s, n) ==
  /\ gen.pc = "idle"
  /\ Len(runs) < MaxRuns
  /\ rng' = random_seed(rng, s)
  /\ gen' = generate_world_begin(n)
  /\ runs' = Append(runs, [seed |-> s, n |-> n, before |-> rng, done |-> FALSE,
                           room_list |-> <<>>, room_array |-> <<>>])
  /\ UNCHANGED worldvars
  /\ UNCHANGED <<tape, aligned>>

\* create_world after generate_world returned: align_doors, then
\* world.World(self.seed), whose constructor calls random.seed(self.seed)
finish_run(run, g) ==
  [run EXCEPT !.done = TRUE, !.room_list = g.room_list,
              !.room_array = align_doors(g.room_list)]

\* one pass of 'while not matched', drawing from the PRNG
SampleRoomSeeded ==
  /\ gen.pc = "sampling"
  /\ rng.pos < MaxDraws
  /\ UNCHANGED <<aligned, worldvars>>
  /\ \E c \in draw_vals(tape, rng) :
       LET cand == random_choice(possible_rooms, c)
           r1 == advance(rng)
           tp1 == observe(tape, rng, c)
           Finish(g2, r2, tp2) ==
             /\ tape' = tp2
             /\ IF g2.pc = "done"
                THEN /\ runs' = [runs EXCEPT ![Len(runs)] = finish_run(@, g2)]
                     /\ rng' = random_seed(r2, runs[Len(runs)].seed)
                     /\ gen' = Idle
                ELSE /\ runs' = runs
                     /\ rng' = r2
                     /\ gen' = g2
       IN  IF draws_test(gen, cand)
           THEN \E t \in draw_vals(tp1, r1) :
                  Finish(sample_room(gen, cand, random_randint(0, 10, t)),
                         advance(r1), observe(tp1, r1, t))
           ELSE Finish(sample_room(gen, cand, 0), r1, tp1)

SeedNext ==
  \/ OtherDraw
  \/ \E s \in 1..MaxSeed, n \in 1..MaxSeededRooms : CreateWorld(s, n)
  \/ SampleRoomSeeded

SpecSeed == SeedInit /\ [][SeedNext]_vars

(***************************************************************************)
(* SpecAlign: align_doors on every room list generate_world(n) can return  *)
(* for n in 0..MaxAlignRooms.                                              *)
(***************************************************************************)
\* the states generate_world reaches in at most k more passes of its loop
RECURSIVE generate_world_reach(_, _)
generate_world_reach(S, k) ==
  IF k = 0
  THEN S
  ELSE generate_world_reach(
         S \cup {sample_room(g, possible_rooms[c], t) :
                   g \in {h \in S : h.pc = "sampling"},
                   c \in 1..Len(possible_rooms), t \in {0, 10}},
         k - 1)

generated_lists(maxn) ==
  {g.room_list :
     g \in {h \in generate_world_reach({generate_world_begin(n) : n \in 0..maxn}, maxn) :
              h.pc = "done"}}

AlignInit ==
  /\ gen = Idle
  /\ rng = NoRng
  /\ tape = <<>>
  /\ runs = <<>>
  /\ WorldUnbuilt
  /\ aligned \in {[room_list |-> rl, room_array |-> <<>>, pc |-> "listed"] :
                    rl \in generated_lists(MaxAlignRooms)}

AlignDoors ==
  /\ aligned.pc = "listed"
  /\ aligned' = [aligned EXCEPT !.room_array = align_doors(aligned.room_list),
                                !.pc = "aligned"]
  /\ UNCHANGED worldvars
  /\ UNCHANGED <<gen, rng, tape, runs>>

AlignNext == AlignDoors

SpecAlign == AlignInit /\ [][AlignNext]_vars

(***************************************************************************)
(* helpers.Graph: nodes is the list of (x, y) node coordinates, walls the  *)
(* list of the 0-based indices of the impassable nodes.                    *)
(***************************************************************************)
None == <<>>

\* list.index(v): the 0-based index of the first v, -1 standing for ValueError
index(list, v) ==
  LET hits == {k \in 1..Len(list) : list[k] = v}
  IN  IF hits = {} THEN -1 ELSE MinOf(hits) - 1

\* list.remove(v): the list without its first v
remove(list, v) ==
  LET k == index(list, v) + 1
  IN  SubSeq(list, 1, k - 1) \o SubSeq(list, k + 1, Len(list))

Graph == [nodes |-> <<>>, walls |-> <<>>]

cost(a, b) == 1

append(graph, node) == [graph EXCEPT !.nodes = Append(@, node)]

graph_add_wall(graph, node) ==
  [graph EXCEPT !.walls = Append(@, index(graph.nodes, node))]

\* mutant: a coordinate that is no node counts as passable
passable_unknown(graph, node) ==
  LET i == index(graph.nodes, node)
  IN  \A k \in 1..Len(graph.walls) : graph.walls[k] # i

passable(graph, node) ==
  LET i == index(graph.nodes, node)
  IN  IF i = -1
      THEN FALSE
      ELSE \A k \in 1..Len(graph.walls) : graph.walls[k] # i

\* mutant: the index of the node stays in walls
make_passable_skipped(graph, node) == graph

make_passable(graph, node) ==
  [graph EXCEPT !.walls = remove(@, index(graph.nodes, node))]

heuristic(a, b) == Abs(a[1] - b[1]) + Abs(a[2] - b[2])

\* mutant: the four diagonal directions are enabled as well
directions_with_diagonals ==
  << <<64, 0>>, <<0, 64>>, <<-64, 0>>, <<0, -64>>,
     <<64, 64>>, <<-64, 64>>, <<-64, -64>>, <<64, -64>> >>

directions == << <<64, 0>>, <<0, 64>>, <<-64, 0>>, <<0, -64>> >>

\* mutant: the walls are not filtered out
get_neighbors_through_walls(graph, node) ==
  SelectSeq([d \in DOMAIN directions |-> <<node[1] + directions[d][1], node[2] + directions[d][2]>>],
            LAMBDA next_node : index(graph.nodes, next_node) # -1)

get_neighbors(graph, node) ==
  SelectSeq([d \in DOMAIN directions |-> <<node[1] + directions[d][1], node[2] + directions[d][2]>>],
            LAMBDA next_node : passable(graph, next_node))

\* mutant: the shift is applied to the first node only
shift_nodes_x_first_only(graph, x) ==
  [graph EXCEPT !.nodes = [k \in 1..Len(@) |->
                             IF k = 1 THEN <<@[k][1] + x, @[k][2]>> ELSE @[k]]]

shift_nodes_x(graph, x) ==
  [graph EXCEPT !.nodes = [k \in 1..Len(@) |-> <<@[k][1] + x, @[k][2]>>]]

shift_nodes_y(graph, y) ==
  [graph EXCEPT !.nodes = [k \in 1..Len(@) |-> <<@[k][1], @[k][2] + y>>]]

(***************************************************************************)
(* helpers.Queue: a heap of (priority, item) tuples.  heappop returns the  *)
(* least tuple, so equal priorities are ordered by the node's (x, y).  A   *)
(* node is pushed again only with a lower cost, so no tuple occurs twice.  *)
(***************************************************************************)
Queue == {}

is_empty(elements) == elements = {}

put(elements, item, priority) == elements \cup {<<priority, item>>}

\* mutant: equal priorities are ordered by y before x
tuple_lt_y_first(e, f) ==
  \/ e[1] < f[1]
  \/ e[1] = f[1] /\ e[2][2] < f[2][2]
  \/ e[1] = f[1] /\ e[2][2] = f[2][2] /\ e[2][1] < f[2][1]

tuple_lt(e, f) ==
  \/ e[1] < f[1]
  \/ e[1] = f[1] /\ e[2][1] < f[2][1]
  \/ e[1] = f[1] /\ e[2][1] = f[2][1] /\ e[2][2] < f[2][2]

heappop(elements) == CHOOSE e \in elements : \A f \in elements \ {e} : tuple_lt(e, f)

get(elements) == heappop(elements)[2]

(***************************************************************************)
(* enemy.Enemy.get_nearest_node / hero.Hero.get_nearest_node               *)
(***************************************************************************)
WIDTH == 1366
HEIGHT == 768

sq(k) == k * k

\* hypot(a) <= 1200 and hypot(a) < hypot(b) are compared on the squares
get_nearest_node(nodes, center) ==
  LET near == {k \in 1..Len(nodes) :
                 4 * sq(nodes[k][2] - HEIGHT) + sq(2 * nodes[k][1] - WIDTH) <= 4 * sq(1200)}
      dist(k) == sq(center[1] - nodes[k][1]) + sq(center[2] - nodes[k][2])
  IN  IF near = {}
      THEN None
      ELSE nodes[CHOOSE k \in near : \A j \in near : dist(j) > dist(k) \/ (dist(j) = dist(k) /\ j >= k)]

(***************************************************************************)
(* enemy.Enemy.a_star and enemy.Enemy.reconstruct_path                     *)
(***************************************************************************)
\* 'for next_node in self.graph.get_neighbors(current)' from the k-th neighbor on
RECURSIVE relax(_, _, _, _, _)
relax(s, goal, current, neighbors, k) ==
  IF k > Len(neighbors)
  THEN s
  ELSE LET next_node == neighbors[k]
           new_cost == s.cost_so_far[current] + cost(current, next_node)
       IN  IF next_node \notin DOMAIN s.cost_so_far \/ new_cost < s.cost_so_far[next_node]
           THEN relax([s EXCEPT
                         !.cost_so_far = (next_node :> new_cost) @@ @,
                         !.frontier = put(@, next_node, new_cost + heuristic(goal, next_node)),
                         !.came_from = (next_node :> current) @@ @],
                      goal, current, neighbors, k + 1)
           ELSE relax(s, goal, current, neighbors, k + 1)

\* 'while not frontier.is_empty() and n > 0'
RECURSIVE a_star_loop(_, _, _)
a_star_loop(graph, goal, s) ==
  IF is_empty(s.frontier) \/ s.n <= 0
  THEN s
  ELSE LET current == get(s.frontier)
           popped == [s EXCEPT !.frontier = @ \ {heappop(s.frontier)},
                               !.current = current,
                               !.expanded = Append(@, current)]
       IN  IF current = goal
           THEN popped
           ELSE a_star_loop(graph, goal,
                            [relax(popped, goal, current, get_neighbors(graph, current), 1)
                               EXCEPT !.n = @ - 1])

\* mutant: the loop does not count its iterations against n
a_star_uncapped(graph, start, goal, n) ==
  a_star_loop(graph, goal,
              [frontier |-> put(Queue, start, 0),
               came_from |-> (start :> None),
               cost_so_far |-> (start :> 0),
               current |-> None,
               expanded |-> <<>>,
               n |-> Len(graph.nodes)])

\* the locals of a_star when it returns; it returns (came_from, current)
a_star(graph, start, goal, n) ==
  a_star_loop(graph, goal,
              [frontier |-> put(Queue, start, 0),
               came_from |-> (start :> None),
               cost_so_far |-> (start :> 0),
               current |-> None,
               expanded |-> <<>>,
               n |-> n])

\* 'while current != start': a current that is not a key of came_from is
\* never replaced, and the loop does not end
RECURSIVE walk_back(_, _, _, _)
walk_back(came_from, start, current, path) ==
  IF current = start
  THEN [terminates |-> TRUE, path |-> path]
  ELSE IF current \notin DOMAIN came_from
       THEN [terminates |-> FALSE, path |-> path]
       ELSE walk_back(came_from, start, came_from[current], Append(path, came_from[current]))

reverse(list) == [k \in 1..Len(list) |-> list[Len(list) + 1 - k]]

reconstruct_path(graph, start, came_from, goal) ==
  LET walked == walk_back(came_from, start, goal, <<goal>>)
  IN  [terminates |-> walked.terminates,
       path |-> [k \in 1..Len(walked.path) |-> index(graph.nodes, reverse(walked.path)[k])]]

(***************************************************************************)
(* Sprites.  world.sprites lists every sprite created, a sprite's id is    *)
(* its position in that list, and a pygame Group is the set of the ids of  *)
(* its members.  The hero is in no group of the world.                     *)
(***************************************************************************)
Rect(x, y, w, h) == [x |-> x, y |-> y, w |-> w, h |-> h]

\* rect.center = center
centered(center, w, h) == Rect(center[1] - w \div 2, center[2] - h \div 2, w, h)

\* rect.center
center_of(rect) == <<rect.x + rect.w \div 2, rect.y + rect.h \div 2>>

colliderect(a, b) ==
  /\ a.x < b.x + b.w
  /\ b.x < a.x + a.w
  /\ a.y < b.y + b.h
  /\ b.y < a.y + a.h

tile_size == 64           \* 'Each block unit is 64x64 px'
bomb_image_size == 32     \* bomb.png
drop_image_size == 32     \* the weapon's image

Wall(center, end_timer, breakable, damage) ==
  [kind |-> "Wall", rect |-> centered(center, tile_size, tile_size),
   end_timer |-> end_timer, breakable |-> breakable, damage |-> damage]

Enemy(name, center) ==
  [kind |-> name, rect |-> centered(center, 64, 64), current_hp |-> 100,
   pathfind_timer |-> 0, path |-> None]

Weapon(center) ==
  [kind |-> "Weapon", rect |-> centered(center, drop_image_size, drop_image_size),
   changey |-> 0]

Bomb(center, changex, changey) ==
  [kind |-> "Bomb", rect |-> centered(center, bomb_image_size, bomb_image_size),
   changex |-> changex, changey |-> changey, radius |-> 128]

Hero ==
  [rect |-> centered(<<WIDTH \div 2, HEIGHT \div 2>>, 48, 48),
   hp |-> 500, take_falldamage |-> TRUE, jumping |-> FALSE, double_jumping |-> FALSE,
   bombs |-> 3, last_motion |-> "right",
   actual_speed |-> 7, jump_height |-> 12, double_jump_height |-> 0,
   can_doublejump |-> FALSE, moving_left |-> FALSE, moving_right |-> FALSE,
   max_bombs |-> 3, bomb_refill_counter |-> 0, bomb_refill_requirement |-> 4]

(***************************************************************************)
(* world.World                                                             *)
(***************************************************************************)
World ==
  [run_timer |-> TRUE, sprites |-> <<>>,
   all_sprites |-> {}, block_list |-> {}, spikes_list |-> {}, drops_list |-> {},
   enemy_list |-> {}, bomb_list |-> {},
   nodes |-> Graph, xspeed |-> 0, yspeed |-> 0,
   room_array |-> <<>>, array_parsed |-> FALSE, raised |-> "none"]

\* Sprite.kill(): the sprite leaves every group
kill(world, id) ==
  [world EXCEPT !.all_sprites = @ \ {id}, !.block_list = @ \ {id},
                !.spikes_list = @ \ {id}, !.drops_list = @ \ {id},
                !.enemy_list = @ \ {id}, !.bomb_list = @ \ {id}]

\* mutant: self.nodes.add_wall(node) is missing
add_wall_node_passable(world, node, end_timer, breakable, damage) ==
  LET id == Len(world.sprites) + 1
      made == [world EXCEPT !.sprites = Append(@, Wall(node, end_timer, breakable, damage)),
                            !.all_sprites = @ \cup {id}]
  IN  IF damage = 0
      THEN [made EXCEPT !.block_list = @ \cup {id}]
      ELSE [made EXCEPT !.spikes_list = @ \cup {id}]

add_wall(world, node, end_timer, breakable, damage) ==
  LET id == Len(world.sprites) + 1
      made == [world EXCEPT !.sprites = Append(@, Wall(node, end_timer, breakable, damage)),
                            !.all_sprites = @ \cup {id}]
  IN  IF damage = 0
      THEN [made EXCEPT !.block_list = @ \cup {id}, !.nodes = graph_add_wall(@, node)]
      ELSE [made EXCEPT !.spikes_list = @ \cup {id}]

add_enemy(world, name, node) ==
  LET id == Len(world.sprites) + 1
  IN  [world EXCEPT !.sprites = Append(@, Enemy(name, node)),
                    !.enemy_list = @ \cup {id}, !.all_sprites = @ \cup {id}]

add_weapon(world, node) ==
  LET id == Len(world.sprites) + 1
  IN  [world EXCEPT !.sprites = Append(@, Weapon(node)),
                    !.all_sprites = @ \cup {id}, !.drops_list = @ \cup {id}]

\* mutant: a blank cell gets a node too
parse_col_blank_node(world, col, node) ==
  LET noded == [world EXCEPT !.nodes = append(@, node)]
  IN  IF world.raised # "none"
      THEN world
      ELSE CASE col = "S" -> add_wall(noded, node, FALSE, FALSE, 0)
             [] col = "R" -> add_wall(noded, node, TRUE, FALSE, 0)
             [] col = "P" -> add_wall(noded, node, FALSE, FALSE, 1)
             [] col = "B" -> add_wall(noded, node, FALSE, TRUE, 0)
             [] col = "V" -> [noded EXCEPT !.raised = "AttributeError"]
             [] col = "G" -> add_enemy(noded, "Ghost", node)
             [] col = "F" -> add_enemy(noded, "FireBat", node)
             [] col = "W" -> add_weapon(noded, node)
             [] OTHER -> noded

\* the body of 'for col in row'.  The module enemy has no Volcano: reading
\* enemy.Volcano raises AttributeError and the loops are left.
parse_col(world, col, node) ==
  LET noded == IF col # "&" THEN [world EXCEPT !.nodes = append(@, node)] ELSE world
  IN  IF world.raised # "none"
      THEN world
      ELSE CASE col = "S" -> add_wall(noded, node, FALSE, FALSE, 0)
             [] col = "R" -> add_wall(noded, node, TRUE, FALSE, 0)
             [] col = "P" -> add_wall(noded, node, FALSE, FALSE, 1)
             [] col = "B" -> add_wall(noded, node, FALSE, TRUE, 0)
             [] col = "V" -> [noded EXCEPT !.raised = "AttributeError"]
             [] col = "G" -> add_enemy(noded, "Ghost", node)
             [] col = "F" -> add_enemy(noded, "FireBat", node)
             [] col = "W" -> add_weapon(noded, node)
             [] OTHER -> noded

RECURSIVE parse_row(_, _, _, _, _)
parse_row(world, row, k, x, y) ==
  IF k > Len(row)
  THEN world
  ELSE parse_row(parse_col(world, row[k], <<x + 32, y + 32>>), row, k + 1, x + 64, y)

RECURSIVE parse_rows(_, _, _, _)
parse_rows(world, r, xstart, y) ==
  IF r > Len(world.room_array)
  THEN world
  ELSE parse_rows(parse_row(world, world.room_array[r], 1, xstart, y), r + 1, xstart, y + 64)

parse_room_array(world) ==
  LET blanks == {k \in 1..Len(world.room_array[1]) : world.room_array[1][k] = "&"}
      x == WIDTH \div 2 - 128 - 64 * Cardinality(blanks)
      y == HEIGHT \div 2 - 128
      parsed == parse_rows(world, 1, x, y)
  IN  IF parsed.raised # "none" THEN parsed ELSE [parsed EXCEPT !.array_parsed = TRUE]

(***************************************************************************)
(* world.World.move_world.  The operators work on a game gm = [world, hero].    *)
(* spritecollide lists the colliding walls in the Group's iteration order, *)
(* which pygame does not fix, so every order of the hit list is a possible *)
(* outcome and the operators return the set of the games they can leave.   *)
(***************************************************************************)
spritecollide(rect, world, group) ==
  {id \in group : colliderect(rect, world.sprites[id].rect)}

\* 'for sprite in self.all_sprites: sprite.movex(x)' (ids: the sprites moved)
movex(world, ids, x) ==
  [world EXCEPT !.sprites = [id \in DOMAIN @ |->
                               IF id \in ids THEN [@[id] EXCEPT !.rect.x = @ + x] ELSE @[id]]]

movey(world, ids, y) ==
  [world EXCEPT !.sprites = [id \in DOMAIN @ |->
                               IF id \in ids THEN [@[id] EXCEPT !.rect.y = @ + y] ELSE @[id]]]

\* mutant: the snapped wall is moved, the rest of the room is left behind
snap_x_alone(gm, x, block) ==
  LET rect == gm.world.sprites[block].rect
      snapped == IF x > 0 THEN gm.hero.rect.x - rect.w
                 ELSE IF x < 0 THEN gm.hero.rect.x + gm.hero.rect.w
                 ELSE rect.x
  IN  [gm EXCEPT !.world.sprites[block].rect.x = snapped]

\* the body of 'for block in block_hit_list' of _move_world_x
snap_x(gm, x, block) ==
  LET rect == gm.world.sprites[block].rect
      old_x_pos == rect.x
      snapped == IF x > 0 THEN gm.hero.rect.x - rect.w
                 ELSE IF x < 0 THEN gm.hero.rect.x + gm.hero.rect.w
                 ELSE rect.x
      x_pos_change == snapped - old_x_pos
      moved == movex([gm.world EXCEPT !.sprites[block].rect.x = snapped,
                                        !.nodes = shift_nodes_x(@, x_pos_change)],
                     gm.world.all_sprites \ {block}, x_pos_change)
  IN  [gm EXCEPT !.world = [moved EXCEPT !.run_timer =
                                IF moved.sprites[block].end_timer THEN FALSE ELSE @]]

RECURSIVE snap_each_x(_, _, _)
snap_each_x(gm, x, block_hit_list) ==
  IF block_hit_list = {}
  THEN {gm}
  ELSE UNION {snap_each_x(snap_x(gm, x, block), x, block_hit_list \ {block}) :
                block \in block_hit_list}

move_world_x(gm, x) ==
  LET shifted == movex([gm.world EXCEPT !.nodes = shift_nodes_x(@, x)],
                       gm.world.all_sprites, x)
      block_hit_list == spritecollide(gm.hero.rect, shifted, shifted.block_list)
  IN  snap_each_x([gm EXCEPT !.world = shifted], x, block_hit_list)

\* mutant: the y phase forgets 'if block.end_timer: self.run_timer = False'
snap_y_timer_kept(gm, y, block) ==
  LET rect == gm.world.sprites[block].rect
      old_y_pos == rect.y
      snapped == IF y > 0 THEN gm.hero.rect.y - rect.h
                 ELSE IF y < 0 THEN gm.hero.rect.y + gm.hero.rect.h
                 ELSE rect.y
      y_pos_change == snapped - old_y_pos
      moved == movey([gm.world EXCEPT !.sprites[block].rect.y = snapped,
                                        !.nodes = shift_nodes_y(@, y_pos_change),
                                        !.yspeed = IF y < 0 THEN 0 ELSE @],
                     gm.world.all_sprites \ {block}, y_pos_change)
  IN  [gm EXCEPT
         !.world = moved,
         !.hero = IF y < 0
                  THEN [@ EXCEPT !.jumping = FALSE, !.double_jumping = FALSE]
                  ELSE @]

\* mutant: the wall hit is put back, the rest of the room stays shifted
snap_y_alone(gm, y, block) ==
  LET rect == gm.world.sprites[block].rect
      snapped == IF y > 0 THEN gm.hero.rect.y - rect.h
                 ELSE IF y < 0 THEN gm.hero.rect.y + gm.hero.rect.h
                 ELSE rect.y
  IN  [gm EXCEPT
         !.world.sprites[block].rect.y = snapped,
         !.world.yspeed = IF y < 0 THEN 0 ELSE @,
         !.hero = IF y < 0
                  THEN [@ EXCEPT !.jumping = FALSE, !.double_jumping = FALSE]
                  ELSE @]

\* the body of 'for block in block_hit_list' of _move_world_y
snap_y(gm, y, block) ==
  LET rect == gm.world.sprites[block].rect
      old_y_pos == rect.y
      snapped == IF y > 0 THEN gm.hero.rect.y - rect.h
                 ELSE IF y < 0 THEN gm.hero.rect.y + gm.hero.rect.h
                 ELSE rect.y
      y_pos_change == snapped - old_y_pos
      moved == movey([gm.world EXCEPT !.sprites[block].rect.y = snapped,
                                        !.nodes = shift_nodes_y(@, y_pos_change),
                                        !.yspeed = IF y < 0 THEN 0 ELSE @],
                     gm.world.all_sprites \ {block}, y_pos_change)
  IN  [gm EXCEPT
         !.world = [moved EXCEPT !.run_timer =
                      IF moved.sprites[block].end_timer THEN FALSE ELSE @],
         !.hero = IF y < 0
                  THEN [@ EXCEPT !.jumping = FALSE, !.double_jumping = FALSE]
                  ELSE @]

RECURSIVE snap_each_y(_, _, _)
snap_each_y(gm, y, block_hit_list) ==
  IF block_hit_list = {}
  THEN {gm}
  ELSE UNION {snap_each_y(snap_y(gm, y, block), y, block_hit_list \ {block}) :
                block \in block_hit_list}

\* mutant: the speed is left to the landing branch of the loop
land_speed_kept(gm) ==
  LET damage == -gm.world.yspeed - 25
  IN  [gm EXCEPT
         !.hero = IF gm.hero.take_falldamage /\ damage > 0
                  THEN [@ EXCEPT !.hp = @ - damage]
                  ELSE @]

\* mutant: the damage is computed per direction, without the sign
land_either_way(gm) ==
  LET damage == Abs(gm.world.yspeed) - 25
  IN  [gm EXCEPT
         !.world.yspeed = @ + (-@),
         !.hero = IF gm.hero.take_falldamage /\ damage > 0
                  THEN [@ EXCEPT !.hp = @ - damage]
                  ELSE @]

\* 'if len(block_hit_list) > 0': fall damage, then changespeed(0, -self.yspeed)
land(gm) ==
  LET damage == -gm.world.yspeed - 25
  IN  [gm EXCEPT
         !.world.yspeed = @ + (-@),
         !.hero = IF gm.hero.take_falldamage /\ damage > 0
                  THEN [@ EXCEPT !.hp = @ - damage]
                  ELSE @]

move_world_y(gm, y) ==
  LET shifted == movey([gm.world EXCEPT !.nodes = shift_nodes_y(@, y)],
                       gm.world.all_sprites, y)
      block_hit_list == spritecollide(gm.hero.rect, shifted, shifted.block_list)
      moved == [gm EXCEPT !.world = shifted]
  IN  snap_each_y(IF block_hit_list # {} THEN land(moved) ELSE moved, y, block_hit_list)

\* mutant: the y axis is resolved before the x axis
move_world_y_first(gm, x, y) ==
  UNION {move_world_x(after_y, x) : after_y \in move_world_y(gm, y)}

move_world(gm, x, y) ==
  UNION {move_world_y(after_x, y) : after_x \in move_world_x(gm, x)}

(***************************************************************************)
(* Bombs: gamestates.InGame.throw_bomb, World.cause_bomb_gravity and       *)
(* World.det_bombs                                                         *)
(***************************************************************************)
base_y_gravity == -3

\* hero.drop_bomb(), then the bomb joins bomb_list and all_sprites
throw_bomb(gm) ==
  IF gm.hero.bombs > 0
  THEN LET x == IF gm.hero.last_motion = "right" THEN 13
                ELSE IF gm.hero.last_motion = "left" THEN -13
                ELSE 0
           id == Len(gm.world.sprites) + 1
       IN  [gm EXCEPT
              !.world = [@ EXCEPT
                           !.sprites = Append(@, Bomb(center_of(gm.hero.rect), x, -20)),
                           !.bomb_list = @ \cup {id},
                           !.all_sprites = @ \cup {id}],
              !.hero.bombs = @ - 1]
  ELSE gm

cause_bomb_gravity(world) ==
  [world EXCEPT !.sprites = [id \in DOMAIN @ |->
     IF id \in world.bomb_list
     THEN [@[id] EXCEPT !.changey = @ - base_y_gravity,
                        !.rect.x = @ + world.sprites[id].changex,
                        !.rect.y = @ + (world.sprites[id].changey - base_y_gravity)]
     ELSE @[id]]]

\* h.get_node_dist(a, b) < radius, for the straight-line distance of a and b
get_node_dist_below(a, b, radius) ==
  sq(a[1] - b[1]) + sq(a[2] - b[2]) < sq(radius)

\* mutant: the blast takes every wall in reach
destroys_any_wall(world, bomb, block) ==
  get_node_dist_below(center_of(world.sprites[block].rect),
                      center_of(world.sprites[bomb].rect), world.sprites[bomb].radius)

\* 'if distance < bomb.radius and block.breakable'
destroys(world, bomb, block) ==
  /\ get_node_dist_below(center_of(world.sprites[block].rect),
                         center_of(world.sprites[bomb].rect), world.sprites[bomb].radius)
  /\ world.sprites[block].breakable

\* 'for block in self.block_list' from the blocks not yet visited on; the
\* walls destroyed and the indices removed do not depend on the order
RECURSIVE destroy_blocks(_, _, _)
destroy_blocks(world, bomb, blocks) ==
  IF blocks = {}
  THEN world
  ELSE LET block == MinOf(blocks)
       IN  IF destroys(world, bomb, block)
           THEN destroy_blocks(
                  kill([world EXCEPT !.nodes =
                          make_passable(@, center_of(world.sprites[block].rect))], block),
                  bomb, blocks \ {block})
           ELSE destroy_blocks(world, bomb, blocks \ {block})

in_blast(world, bomb, group) ==
  {id \in group : get_node_dist_below(center_of(world.sprites[id].rect),
                                      center_of(world.sprites[bomb].rect),
                                      world.sprites[bomb].radius)}

\* the body of 'for bomb in self.bomb_list'.  hero.bomb_damage is defined
\* nowhere, so reaching an enemy raises AttributeError after the walls fell
detonate(world, bomb) ==
  IF spritecollide(world.sprites[bomb].rect, world, world.block_list) = {}
  THEN world
  ELSE LET walls_done == destroy_blocks(world, bomb, world.block_list)
       IN  IF in_blast(walls_done, bomb, walls_done.enemy_list) # {}
           THEN [walls_done EXCEPT !.raised = "AttributeError"]
           ELSE kill([walls_done EXCEPT !.drops_list = @ \ in_blast(walls_done, bomb, @),
                                        !.all_sprites = @ \ in_blast(walls_done, bomb, walls_done.drops_list)],
                     bomb)

\* 'for bomb in self.bomb_list', in any order of the Group
RECURSIVE det_each(_, _)
det_each(world, bombs) ==
  IF bombs = {} \/ world.raised # "none"
  THEN {world}
  ELSE UNION {det_each(detonate(world, bomb), bombs \ {bomb}) : bomb \in bombs}

det_bombs(world) == det_each(world, world.bomb_list)

(***************************************************************************)
(* The worlds the specifications below start from: create_world aligns     *)
(* the room list, World.draw parses the grid on its first call, and the    *)
(* hero travels: move_world displaces every sprite and node alike.         *)
(***************************************************************************)
built_world(room_list) ==
  parse_room_array([World EXCEPT !.room_array = align_doors(room_list)])

\* the world once move_world has displaced it by d in all
travelled(world, d) ==
  movey(movex([world EXCEPT !.nodes = shift_nodes_y(shift_nodes_x(@, d[1]), d[2])],
              world.all_sprites, d[1]),
        world.all_sprites, d[2])

\* generate_world(0), and generate_world(1) when it picked Room03
Level0 == <<"StartingRoom", "EndingRoom">>
Level3 == <<"StartingRoom", "Room03", "EndingRoom">>

Start(tick) == [op |-> "start", x |-> 0, y |-> 0, tick |-> tick]

(***************************************************************************)
(* SpecShift: Graph.shift_nodes_x / shift_nodes_y called in any order on   *)
(* the graph of a parsed world.  pre keeps the graph as parsed and last    *)
(* the sums of the shifts.                                                 *)
(***************************************************************************)
MaxShifts == 3

Shifts == {-64, -7, 7, 64}

ShiftInit ==
  /\ gen = Idle
  /\ rng = NoRng
  /\ tape = <<>>
  /\ runs = <<>>
  /\ aligned = NoLevel
  /\ game \in {[world |-> built_world(rl), hero |-> Hero] : rl \in {Level0, Level3}}
  /\ pre = game
  /\ last = Start(0)
  /\ search = NoSearch

ShiftNodesX(x) ==
  /\ last.tick < MaxShifts
  /\ game' = [game EXCEPT !.world.nodes = shift_nodes_x(@, x)]
  /\ last' = [op |-> "shift_nodes", x |-> last.x + x, y |-> last.y, tick |-> last.tick + 1]
  /\ UNCHANGED <<pre, search>>
  /\ UNCHANGED levelvars

ShiftNodesY(y) ==
  /\ last.tick < MaxShifts
  /\ game' = [game EXCEPT !.world.nodes = shift_nodes_y(@, y)]
  /\ last' = [op |-> "shift_nodes", x |-> last.x, y |-> last.y + y, tick |-> last.tick + 1]
  /\ UNCHANGED <<pre, search>>
  /\ UNCHANGED levelvars

ShiftNext ==
  \/ \E x \in Shifts : ShiftNodesX(x)
  \/ \E y \in Shifts : ShiftNodesY(y)

SpecShift == ShiftInit /\ [][ShiftNext]_vars

(***************************************************************************)
(* SpecPath: one a_star + reconstruct_path call of the FireBat of          *)
(* StartingRoom, wherever it has flown to and wherever the hero is.        *)
(***************************************************************************)
BigBudget == 64

Budgets == {7, BigBudget}

\* how far the hero has travelled: at the spawn point, inside EndingRoom
PathTravels == {<<0, 0>>, <<-320, -256>>}

passable_nodes(graph) ==
  {graph.nodes[k] : k \in {j \in 1..Len(graph.nodes) : passable(graph, graph.nodes[j])}}

\* the enemy e of the world, centred on node
enemy_at(world, e, node) ==
  [world EXCEPT !.sprites[e].rect = centered(node, @.w, @.h)]

PathInit ==
  /\ gen = Idle
  /\ rng = NoRng
  /\ tape = <<>>
  /\ runs = <<>>
  /\ aligned = NoLevel
  /\ \E d \in PathTravels :
       LET world == travelled(built_world(Level0), d)
       IN  \E e \in world.enemy_list, node \in passable_nodes(world.nodes) :
             game = [world |-> enemy_at(world, e, node), hero |-> Hero]
  /\ pre = game
  /\ last = Start(0)
  /\ search = NoSearch

\* 'came_from, current = self.a_star(hero)' and
\* 'self.path = self.reconstruct_path(came_from, current)' for enemy e
AStar(e, n) ==
  /\ search.op = "none"
  /\ game.world.sprites[e].kind = "FireBat"
  /\ LET graph == game.world.nodes
         start == get_nearest_node(graph.nodes, center_of(game.world.sprites[e].rect))
         goal == get_nearest_node(graph.nodes, center_of(game.hero.rect))
         found == a_star(graph, start, goal, n)
         path == reconstruct_path(graph, start, found.came_from, found.current)
     IN  /\ search' = [op |-> "a_star", enemy |-> e, start |-> start, goal |-> goal,
                       n |-> n, left |-> found.n, came_from |-> found.came_from,
                       current |-> found.current, expanded |-> found.expanded,
                       terminates |-> path.terminates, path |-> path.path]
         /\ game' = IF path.terminates
                    THEN [game EXCEPT !.world.sprites[e].path = path.path]
                    ELSE game
  /\ pre' = game
  /\ last' = [op |-> "a_star", x |-> 0, y |-> 0, tick |-> last.tick + 1]
  /\ UNCHANGED levelvars

PathNext == \E e \in game.world.enemy_list, n \in Budgets : AStar(e, n)

SpecPath == PathInit /\ [][PathNext]_vars

(***************************************************************************)
(* SpecMove: move_world, throw_bomb, cause_bomb_gravity and det_bombs on   *)
(* a parsed world, MaxTicks calls in all.  The velocity of a move_world    *)
(* call is the one the key handlers, the jump and gravity have left in     *)
(* world.xspeed and world.yspeed.                                          *)
(***************************************************************************)
MaxTicks == 3

MaxBombs == 1

Speeds == {-70, -7, 0, 7, 70}

\* the hero at the spawn point of Level0; the hero of Level3 standing on
\* the floor of Room03 against its breakable wall
MoveStarts == {<<Level0, <<0, 0>>>>, <<Level3, <<-424, -296>>>>}

MoveInit ==
  /\ gen = Idle
  /\ rng = NoRng
  /\ tape = <<>>
  /\ runs = <<>>
  /\ aligned = NoLevel
  /\ game \in {[world |-> travelled(built_world(s[1]), s[2]), hero |-> Hero] : s \in MoveStarts}
  /\ pre = game
  /\ last = Start(0)
  /\ search = NoSearch

\* setspeed(x, y) as the handlers call it, then move_world(hero, xspeed, yspeed)
MoveWorld(x, y) ==
  /\ last.tick < MaxTicks
  /\ game.world.raised = "none"
  /\ LET sped == [game EXCEPT !.world.xspeed = x, !.world.yspeed = y,
                              !.hero.last_motion = IF x < 0 THEN "right"
                                                   ELSE IF x > 0 THEN "left" ELSE @]
     IN  /\ game' \in move_world(sped, sped.world.xspeed, sped.world.yspeed)
         /\ pre' = sped
  /\ last' = [op |-> "move_world", x |-> x, y |-> y, tick |-> last.tick + 1]
  /\ UNCHANGED search
  /\ UNCHANGED levelvars

ThrowBomb ==
  /\ last.tick < MaxTicks
  /\ game.world.raised = "none"
  /\ game.hero.bombs > 0
  /\ Cardinality(game.world.bomb_list) < MaxBombs
  /\ game' = throw_bomb(game)
  /\ pre' = game
  /\ last' = [op |-> "throw_bomb", x |-> 0, y |-> 0, tick |-> last.tick + 1]
  /\ UNCHANGED search
  /\ UNCHANGED levelvars

CauseBombGravity ==
  /\ last.tick < MaxTicks
  /\ game.world.raised = "none"
  /\ game.world.bomb_list # {}
  /\ game' = [game EXCEPT !.world = cause_bomb_gravity(@)]
  /\ pre' = game
  /\ last' = [op |-> "cause_bomb_gravity", x |-> 0, y |-> 0, tick |-> last.tick + 1]
  /\ UNCHANGED search
  /\ UNCHANGED levelvars

DetBombs ==
  /\ last.tick < MaxTicks
  /\ game.world.raised = "none"
  /\ game.world.bomb_list # {}
  /\ \E world \in det_bombs(game.world) : game' = [game EXCEPT !.world = world]
  /\ pre' = game
  /\ last' = [op |-> "det_bombs", x |-> 0, y |-> 0, tick |-> last.tick + 1]
  /\ UNCHANGED search
  /\ UNCHANGED levelvars

MoveNext ==
  \/ \E x \in Speeds, y \in Speeds : MoveWorld(x, y)
  \/ ThrowBomb
  \/ CauseBombGravity
  \/ DetBombs

SpecMove == MoveInit /\ [][MoveNext]_vars

(***************************************************************************)
(* Claims about the generator and the door aligner                         *)
(***************************************************************************)
\* the run-length mutant of generate_world's MoveDown guard is defined with
\* the guards; the helpers below read the returned list only.
tag_of(key) == room_dict[key][1]

\* the rooms between StartingRoom and EndingRoom of a returned list
intermediate(room_list) == SubSeq(room_list, 2, Len(room_list) - 1)

\* some L consecutive rooms of s all have direction tag d
has_run(s, d, L) ==
  \E j \in 1..(Len(s) - L + 1) : \A k \in j..(j + L - 1) : tag_of(s[k]) = d

\* C1: two create_world calls with the same seed and the same room count
\* return the same room sequence and the same level grid, whatever was drawn
\* from the PRNG before either call.
C1_SameSeedSameWorld ==
  \A a, b \in 1..Len(runs) :
    (/\ runs[a].done /\ runs[b].done
     /\ runs[a].seed = runs[b].seed
     /\ runs[a].n = runs[b].n)
    => /\ runs[a].room_list = runs[b].room_list
       /\ runs[a].room_array = runs[b].room_array

\* two completed calls with one seed and n = 2, entered from different PRNG
\* states, the second after other code had drawn
C1_Witness ==
  /\ Len(runs) = 2
  /\ runs[1].done /\ runs[2].done
  /\ runs[1].seed = runs[2].seed
  /\ runs[1].n = 2 /\ runs[2].n = 2
  /\ runs[1].before # runs[2].before
  /\ runs[2].before.pos > 0
  /\ Len(runs[2].room_array) > 0

rows_of(key) == Len(room_dict[key]) - 1

RECURSIVE rows_before(_, _)
rows_before(room_list, i) ==
  IF i <= 1 THEN 0 ELSE rows_before(room_list, i - 1) + rows_of(room_list[i - 1])

C3_SeamsAligned ==
  aligned.pc = "aligned" =>
    \A i \in 1..(Len(aligned.room_list) - 1) :
      LET last_row == aligned.room_array[rows_before(aligned.room_list, i + 1)]
          first_row == aligned.room_array[rows_before(aligned.room_list, i + 1) + 1]
      IN  /\ find_DD(last_row) >= 0
          /\ find_DD(last_row) = find_DD(first_row)

\* the offset align_doors computes when it adds room k
door_location_at(room_list, k) ==
  find_DD(Last(align_doors(SubSeq(room_list, 1, k - 1))))
    - find_DD(room_dict[room_list[k]][2])

\* a grid in which a seam was made and a later room had a negative offset,
\* so the rows on both sides of the earlier seam were left-padded afterwards
C3_Witness ==
  /\ aligned.pc = "aligned"
  /\ \E j, k \in 2..Len(aligned.room_list) :
       /\ j < k
       /\ door_location_at(aligned.room_list, j) > 0
       /\ door_location_at(aligned.room_list, k) < 0

\* C10: generate_world(n) returns n + 2 rooms, StartingRoom first, EndingRoom
\* last, and none of the n rooms in between is StartingRoom, EndingRoom or
\* TransitionRoom.
C10_StartPicksEnd ==
  gen.pc = "done" =>
    /\ Len(gen.room_list) = gen.n + 2
    /\ room_dict[gen.room_list[1]] = StartingRoom
    /\ room_dict[Last(gen.room_list)] = EndingRoom
    /\ \A k \in 2..(Len(gen.room_list) - 1) :
         /\ gen.room_list[k] \notin {"StartingRoom", "EndingRoom", "TransitionRoom"}
         /\ room_dict[gen.room_list[k]] \notin {StartingRoom, EndingRoom}

\* the returned list for n = 3: StartingRoom, three picks, EndingRoom
C10_Witness ==
  /\ gen.pc = "done"
  /\ gen.n = 3
  /\ Len(gen.room_list) = 5

(***************************************************************************)
(* Claims about the node graph and the path search                         *)
(***************************************************************************)
\* C4: after shift_nodes_x / shift_nodes_y calls whose deltas sum to (Dx, Dy)
\* the node at every index is the original node plus (Dx, Dy), the number and
\* the order of the nodes and the wall indices are unchanged, and passable
\* answers for each shifted node as it did for the original node.
C4_ShiftKeepsGraph ==
  last.op = "shift_nodes" =>
    LET now == game.world.nodes
        was == pre.world.nodes
    IN  /\ Len(now.nodes) = Len(was.nodes)
        /\ now.walls = was.walls
        /\ \A i \in 1..Len(was.nodes) :
             /\ now.nodes[i] = <<was.nodes[i][1] + last.x, was.nodes[i][2] + last.y>>
             /\ passable(now, now.nodes[i]) = passable(was, was.nodes[i])

\* three shifts, in both axes, by amounts that are no whole number of tiles
C4_Witness ==
  /\ last.op = "shift_nodes"
  /\ last.tick = MaxShifts
  /\ last.x % 64 # 0
  /\ last.y # 0
  /\ game.world.nodes.nodes # pre.world.nodes.nodes
  /\ \E i \in 1..Len(game.world.nodes.nodes) :
       ~passable(game.world.nodes, game.world.nodes.nodes[i])

\* the number of steps of a shortest 4-connected path through passable nodes
\* from the nodes of reached to goal, found breadth first; -1 if there is none
RECURSIVE breadth_first(_, _, _, _, _)
breadth_first(graph, reached, edge, goal, d) ==
  IF goal \in edge
  THEN d
  ELSE LET next == {n \in UNION {{get_neighbors(graph, c)[k] :
                                    k \in 1..Len(get_neighbors(graph, c))} : c \in edge} :
                      n \notin reached}
       IN  IF next = {}
           THEN -1
           ELSE breadth_first(graph, reached \cup next, next, goal, d + 1)

breadth_first_distance(graph, start, goal) ==
  breadth_first(graph, {start}, {start}, goal, 0)

has_walls(graph) == Len(graph.walls) > 0

\* C5: on a graph with impassable nodes, with a budget that does not bind and
\* a reachable goal, the path of a_star + reconstruct_path has as many steps
\* as the breadth-first distance from start to goal.
C5_PathIsShortest ==
  ( /\ search.op = "a_star"
    /\ search.left > 0
    /\ has_walls(pre.world.nodes)
    /\ breadth_first_distance(pre.world.nodes, search.start, search.goal) >= 0 )
  => /\ search.terminates
     /\ Len(search.path) - 1 =
          breadth_first_distance(pre.world.nodes, search.start, search.goal)

\* every tile position of the rectangle spanned by a and b is a passable node
open_between(graph, a, b) ==
  \A i \in 0..(Abs(b[1] - a[1]) \div 64), j \in 0..(Abs(b[2] - a[2]) \div 64) :
    passable(graph, <<(IF a[1] < b[1] THEN a[1] ELSE b[1]) + 64 * i,
                      (IF a[2] < b[2] THEN a[2] ELSE b[2]) + 64 * j>>)

\* C6: with no impassable node between start and goal and a budget that does
\* not bind, the path has (|dx| + |dy|) / 64 steps.
C6_ManhattanWhenOpen ==
  ( /\ search.op = "a_star"
    /\ search.left > 0
    /\ open_between(pre.world.nodes, search.start, search.goal) )
  => /\ search.terminates
     /\ search.current = search.goal
     /\ Len(search.path) - 1 =
          (Abs(search.goal[1] - search.start[1]) + Abs(search.goal[2] - search.start[2])) \div 64

\* the default budget of 7, a goal that is off the start's row and column
C6_Witness ==
  /\ search.op = "a_star"
  /\ search.n = 7
  /\ search.left > 0
  /\ open_between(pre.world.nodes, search.start, search.goal)
  /\ search.goal[1] # search.start[1]
  /\ search.goal[2] # search.start[2]
  /\ Len(search.path) - 1 >= 4

(***************************************************************************)
(* Claims about move_world and det_bombs                                   *)
(***************************************************************************)
\* how far move_world has carried sprite id / the node at index k
sprite_moved(id) ==
  <<game.world.sprites[id].rect.x - pre.world.sprites[id].rect.x,
    game.world.sprites[id].rect.y - pre.world.sprites[id].rect.y>>

node_moved(k) ==
  <<game.world.nodes.nodes[k][1] - pre.world.nodes.nodes[k][1],
    game.world.nodes.nodes[k][2] - pre.world.nodes.nodes[k][2]>>

\* C7: move_world displaces every sprite of all_sprites and every node by one
\* common vector, whatever the velocity and however many walls collide.
C7_RigidShift ==
  last.op = "move_world" =>
    LET by == node_moved(1)
    IN  /\ game.world.all_sprites = pre.world.all_sprites
        /\ Len(game.world.nodes.nodes) = Len(pre.world.nodes.nodes)
        /\ \A a \in pre.world.all_sprites : sprite_moved(a) = by
        /\ \A k \in 1..Len(pre.world.nodes.nodes) : node_moved(k) = by

\* a move faster than a tile per tick in which walls stopped the world in
\* both axes, with a bomb among the sprites
C7_Witness ==
  /\ last.op = "move_world"
  /\ Abs(last.x) > tile_size
  /\ Abs(last.y) > tile_size
  /\ pre.world.bomb_list # {}
  /\ \E a \in pre.world.block_list :
       /\ sprite_moved(a)[1] # last.x
       /\ sprite_moved(a)[2] # last.y

hero_in_wall(gm) ==
  spritecollide(gm.hero.rect, gm.world, gm.world.block_list) # {}

\* C8: a hero that overlaps no wall of block_list when move_world is called
\* overlaps none when it returns, for every velocity and wall layout.
C8_HeroLeftFree ==
  (last.op = "move_world" /\ ~hero_in_wall(pre)) => ~hero_in_wall(game)

\* the bombs of bomb_list that touched a wall when det_bombs was called
detonated ==
  {bomb \in pre.world.bomb_list :
     spritecollide(pre.world.sprites[bomb].rect, pre.world, pre.world.block_list) # {}}

in_reach(block) ==
  \E bomb \in detonated :
    get_node_dist_below(center_of(pre.world.sprites[block].rect),
                        center_of(pre.world.sprites[bomb].rect),
                        pre.world.sprites[bomb].radius)

\* C9: when a bomb detonates, every breakable wall closer than its radius is
\* removed and its node becomes passable; every other wall stays in
\* block_list with its node impassable.
C9_BlastTakesBreakables ==
  last.op = "det_bombs" =>
    \A block \in pre.world.block_list :
      LET node == center_of(pre.world.sprites[block].rect)
      IN  IF pre.world.sprites[block].breakable /\ in_reach(block)
          THEN /\ block \notin game.world.block_list
               /\ block \notin game.world.all_sprites
               /\ passable(game.world.nodes, node)
          ELSE /\ block \in game.world.block_list
               /\ block \in game.world.all_sprites
               /\ ~passable(game.world.nodes, node)

\* a detonation that took a breakable wall and left a solid wall in reach
C9_Witness ==
  /\ last.op = "det_bombs"
  /\ detonated # {}
  /\ \E block \in pre.world.block_list :
       /\ pre.world.sprites[block].breakable
       /\ in_reach(block)
       /\ block \notin game.world.block_list
  /\ \E block \in pre.world.block_list :
       /\ ~pre.world.sprites[block].breakable
       /\ in_reach(block)
       /\ block \in game.world.block_list

(***************************************************************************)
(* SpecGenFair: generate_world(n) where random.choice and random.randint   *)
(* are fair: an outcome that can be drawn at every pass of 'while not      *)
(* matched' is drawn at some pass.  A rejected candidate leaves room_list  *)
(* and the three counters as they were, so a rejecting pass is a           *)
(* stuttering step and weak fairness of the pass is enough.                *)
(***************************************************************************)
SpecGenFair == GenInit /\ [][GenNext]_vars /\ WF_vars(SampleRoom)

\* a catalog room the next pass accepts without drawing the repeat test
accepted_untested(g) ==
  {cand \in {possible_rooms[k] : k \in 1..Len(possible_rooms)} :
     passes_limit(g, cand) /\ ~same_room(g, cand)}

\* C11: at every pass of 'while not matched' some catalog room passes the
\* direction limit and is not subject to the repeat test, and under fair
\* sampling every call of generate_world fills its n slots and returns.
C11_LoopsTerminate ==
  /\ [](gen.pc = "sampling" => accepted_untested(gen) # {})
  /\ <>(gen.pc = "done")

\* the last of six slots is being sampled after a run of three MoveDown
\* rooms, so every MoveDown candidate is rejected
C11_Witness ==
  /\ gen.pc = "sampling"
  /\ gen.n = 6 /\ gen.i = 5
  /\ gen.move_down_counter = 3
  /\ \E cand \in {possible_rooms[k] : k \in 1..Len(possible_rooms)} :
       ~passes_limit(gen, cand)

(***************************************************************************)
(* world.World.update and world.World.draw.  The catalog holds FireBat and *)
(* Ghost enemies only: both fly (Enemy.calc_gravity is never called) and   *)
(* neither is ranged, so cause_ranged_attacks fires nothing and the two    *)
(* projectile groups stay empty: cause_projectile_damage,                  *)
(* destroy_projectiles and enemy_projectile_list.update change nothing.    *)
(* Wall has no update method, so block_list.update() changes nothing.      *)
(***************************************************************************)
gravity_acceleration == -1

calc_gravity(world) ==
  [world EXCEPT !.yspeed = IF @ = 0 THEN base_y_gravity ELSE @ + gravity_acceleration]

\* the class attributes of enemy.FireBat, of the base class enemy.Enemy and
\* of enemy.Ghost
enemy_class(kind) ==
  IF kind = "FireBat"
  THEN [activation_range |-> 600, speed |-> 4, contact_damage |-> 4, clips |-> TRUE]
  ELSE IF kind = "Enemy"
       THEN [activation_range |-> 0, speed |-> 3, contact_damage |-> 3, clips |-> TRUE]
       ELSE [activation_range |-> 1024, speed |-> 3, contact_damage |-> 1, clips |-> FALSE]

\* get_dist_from_hero() squared: HEIGHT / 2 is subtracted from centerx and
\* WIDTH / 2 from centery
get_dist_from_hero(rect) ==
  sq(center_of(rect)[1] - HEIGHT \div 2) + sq(center_of(rect)[2] - WIDTH \div 2)

\* four ifs in a row, each reading the rect the one before may have moved
straight_to_hero(gm, e) ==
  LET s == enemy_class(gm.world.sprites[e].kind).speed
      h == center_of(gm.hero.rect)
      c(w) == center_of(w.sprites[e].rect)
      w1 == IF h[1] > c(gm.world)[1] THEN movex(gm.world, {e}, s) ELSE gm.world
      w2 == IF h[2] > c(w1)[2] THEN movey(w1, {e}, s) ELSE w1
      w3 == IF h[1] < c(w2)[1] THEN movex(w2, {e}, -s) ELSE w2
      w4 == IF h[2] < c(w3)[2] THEN movey(w3, {e}, -s) ELSE w3
  IN  [gm EXCEPT !.world = w4]

\* self.path = self.reconstruct_path(came_from, current) on what a_star
\* returned: Python indices into graph.nodes
path_found(graph, start, found) ==
  reconstruct_path(graph, start, found.came_from, found.current).path

\* mutant: the timer is set to 16 and counted down in the same call
search_or_wait_same_call(graph, enemy, start, goal) ==
  IF enemy.pathfind_timer = 0
  THEN [enemy EXCEPT !.path = path_found(graph, start, a_star(graph, start, goal, 7)),
                     !.pathfind_timer = @ + 15]
  ELSE [enemy EXCEPT !.pathfind_timer = @ - 1]

\* 'if self.pathfind_timer == 0: ... else: self.pathfind_timer -= 1'
search_or_wait(graph, enemy, start, goal) ==
  IF enemy.pathfind_timer = 0
  THEN [enemy EXCEPT !.path = path_found(graph, start, a_star(graph, start, goal, 7)),
                     !.pathfind_timer = @ + 16]
  ELSE [enemy EXCEPT !.pathfind_timer = @ - 1]

\* mutant: the step is taken before the reached node is dropped
follow_path_move_first(graph, enemy, s) ==
  LET node == graph.nodes[enemy.path[1] + 1]
      c == center_of(enemy.rect)
      moved == IF Len(enemy.path) > 0
               THEN [enemy EXCEPT
                       !.rect.x = IF node[1] > c[1] THEN @ + s
                                  ELSE IF node[1] < c[1] THEN @ - s ELSE @,
                       !.rect.y = IF node[2] > c[2] THEN @ + s
                                  ELSE IF node[2] < c[2] THEN @ - s ELSE @]
               ELSE enemy
  IN  IF Len(moved.path) > 0
         /\ graph.nodes[moved.path[1] + 1] = center_of(moved.rect)
      THEN [moved EXCEPT !.path = Tail(@)]
      ELSE moved

\* 'if len(self.path) > 0': drop the node the enemy stands on, then one
\* step of s pixels towards the next node on each axis
follow_path(graph, enemy, s) ==
  LET popped == IF Len(enemy.path) > 0
                   /\ graph.nodes[enemy.path[1] + 1] = center_of(enemy.rect)
                THEN [enemy EXCEPT !.path = Tail(@)]
                ELSE enemy
      node == graph.nodes[popped.path[1] + 1]
      c == center_of(popped.rect)
  IN  IF Len(popped.path) > 0
      THEN [popped EXCEPT
              !.rect.x = IF node[1] > c[1] THEN @ + s
                         ELSE IF node[1] < c[1] THEN @ - s ELSE @,
              !.rect.y = IF node[2] > c[2] THEN @ + s
                         ELSE IF node[2] < c[2] THEN @ - s ELSE @]
      ELSE popped

\* Enemy.pathfind(hero).  a_star on a start that is None raises when it
\* reads the neighbours of None.
pathfind(gm, e) ==
  LET enemy == gm.world.sprites[e]
      graph == gm.world.nodes
      start == get_nearest_node(graph.nodes, center_of(enemy.rect))
      goal == get_nearest_node(graph.nodes, center_of(gm.hero.rect))
  IN  IF enemy.pathfind_timer = 0 /\ (start = None \/ goal = None)
      THEN [gm EXCEPT !.world.raised = "TypeError"]
      ELSE [gm EXCEPT !.world.sprites[e] =
              follow_path(graph, search_or_wait(graph, enemy, start, goal),
                          enemy_class(enemy.kind).speed)]

\* hero.increment_bomb_counter() and hero.recover_bomb()
increment_bomb_counter(hero) ==
  IF hero.bomb_refill_counter + 1 >= hero.bomb_refill_requirement
  THEN [hero EXCEPT !.bomb_refill_counter = 0,
                    !.bombs = IF @ < hero.max_bombs THEN @ + 1 ELSE @]
  ELSE [hero EXCEPT !.bomb_refill_counter = @ + 1]

\* 'if self.current_hp <= 0' of Enemy.update.  hero.speed_boost_on_kill is
\* set by an upgrade only: on a hero without it the branch ends in
\* AttributeError, after kill() and increment_bomb_counter().
die_if_dead(gm, e) ==
  IF gm.world.raised = "none" /\ gm.world.sprites[e].current_hp <= 0
  THEN [gm EXCEPT !.world = [kill(@, e) EXCEPT !.raised = "AttributeError"],
                  !.hero = increment_bomb_counter(@)]
  ELSE gm

\* Enemy.update(hero)
enemy_update(gm, e) ==
  LET enemy == gm.world.sprites[e]
      cls == enemy_class(enemy.kind)
  IN  die_if_dead(IF get_dist_from_hero(enemy.rect) <= sq(cls.activation_range)
                  THEN IF cls.clips THEN pathfind(gm, e) ELSE straight_to_hero(gm, e)
                  ELSE gm,
                  e)

\* self.enemy_list.update(hero): an enemy's update reads and writes no other
\* enemy, so the Group's order does not show
RECURSIVE update_enemies(_, _)
update_enemies(gm, enemies) ==
  IF enemies = {} \/ gm.world.raised # "none"
  THEN gm
  ELSE update_enemies(enemy_update(gm, MinOf(enemies)), enemies \ {MinOf(enemies)})

\* hero.damage(spike_hit_list[0].damage), for any spike that can come first
cause_spike_damage(gm) ==
  LET spike_hit_list == spritecollide(gm.hero.rect, gm.world, gm.world.spikes_list)
  IN  IF spike_hit_list = {}
      THEN {gm}
      ELSE {[gm EXCEPT !.hero.hp = @ - gm.world.sprites[spike].damage] :
              spike \in spike_hit_list}

\* the body of 'for drop in self.drops_list': the first block of hit_list
\* snaps the drop and zeroes changey, the blocks after it find changey = 0
drop_gravity(world, drop) ==
  LET changey == IF world.sprites[drop].changey = 0
                 THEN -base_y_gravity
                 ELSE world.sprites[drop].changey - gravity_acceleration
      fell == [world EXCEPT !.sprites[drop].changey = changey,
                            !.sprites[drop].rect.y = @ + changey]
      hit_list == spritecollide(fell.sprites[drop].rect, fell, fell.block_list)
      snapped(block) ==
        IF changey > 0 THEN fell.sprites[block].rect.y - fell.sprites[drop].rect.h
        ELSE IF changey < 0 THEN fell.sprites[block].rect.y + fell.sprites[block].rect.h
        ELSE fell.sprites[drop].rect.y
  IN  IF hit_list = {}
      THEN {fell}
      ELSE {[fell EXCEPT !.sprites[drop].rect.y = snapped(block),
                         !.sprites[drop].changey = 0] : block \in hit_list}

RECURSIVE cause_dropped_item_gravity(_, _)
cause_dropped_item_gravity(world, drops) ==
  IF drops = {}
  THEN {world}
  ELSE UNION {cause_dropped_item_gravity(fell, drops \ {MinOf(drops)}) :
                fell \in drop_gravity(world, MinOf(drops))}

\* hero.damage(e.contact_damage) for every enemy the hero touches
RECURSIVE cause_contact_damage(_, _)
cause_contact_damage(gm, enemy_hit_list) ==
  IF enemy_hit_list = {}
  THEN gm
  ELSE LET e == MinOf(enemy_hit_list)
       IN  cause_contact_damage(
             [gm EXCEPT !.hero.hp = @ - enemy_class(gm.world.sprites[e].kind).contact_damage],
             enemy_hit_list \ {e})

\* World.update with the enemies updated after move_world
update_enemies_after_move(gm) ==
  LET skip(g) == g.world.raised # "none"
      bombed == {[gm EXCEPT !.world = w] :
                   w \in det_bombs(cause_bomb_gravity(calc_gravity(gm.world)))}
      moved == UNION {IF skip(g) THEN {g}
                      ELSE move_world(g, g.world.xspeed, g.world.yspeed) : g \in bombed}
      enemies == {update_enemies(g, g.world.enemy_list) : g \in moved}
      spiked == UNION {IF skip(g) THEN {g} ELSE cause_spike_damage(g) : g \in enemies}
      dropped == UNION {IF skip(g) THEN {g}
                        ELSE {[g EXCEPT !.world = w] :
                                w \in cause_dropped_item_gravity(g.world, g.world.drops_list)} :
                        g \in spiked}
  IN  {IF skip(g) THEN g
       ELSE cause_contact_damage(g, spritecollide(g.hero.rect, g.world, g.world.enemy_list)) :
         g \in dropped}

\* World.update(hero): the games one tick can leave.  A statement runs on
\* every outcome of the one before it, unless that one raised.
update(gm) ==
  LET skip(g) == g.world.raised # "none"
      bombed == {[gm EXCEPT !.world = w] :
                   w \in det_bombs(cause_bomb_gravity(calc_gravity(gm.world)))}
      enemies == {update_enemies(g, g.world.enemy_list) : g \in bombed}
      moved == UNION {IF skip(g) THEN {g}
                      ELSE move_world(g, g.world.xspeed, g.world.yspeed) : g \in enemies}
      spiked == UNION {IF skip(g) THEN {g} ELSE cause_spike_damage(g) : g \in moved}
      dropped == UNION {IF skip(g) THEN {g}
                        ELSE {[g EXCEPT !.world = w] :
                                w \in cause_dropped_item_gravity(g.world, g.world.drops_list)} :
                        g \in spiked}
  IN  {IF skip(g) THEN g
       ELSE cause_contact_damage(g, spritecollide(g.hero.rect, g.world, g.world.enemy_list)) :
         g \in dropped}

\* 'for node in self.nodes.nodes': chosen holds the nodes for which
\* random.randint(0, 1000) <= self.weapon_factor, visited in list order
RECURSIVE add_weapons_to_world(_, _)
add_weapons_to_world(world, chosen) ==
  LET picks == {k \in 1..Len(world.nodes.nodes) :
                  /\ world.nodes.nodes[k] \in chosen
                  /\ passable(world.nodes, world.nodes.nodes[k])}
      node == world.nodes.nodes[MinOf(picks)]
      near == \E existing_weapon \in world.drops_list :
                get_node_dist_below(center_of(world.sprites[existing_weapon].rect),
                                    node, 10000)
  IN  IF picks = {}
      THEN world
      ELSE add_weapons_to_world(IF world.drops_list = {} \/ near
                                THEN add_weapon(world, node)
                                ELSE world,
                                chosen \ {node})

\* mutant: the array_parsed test is missing
draw_unguarded(world, chosen) ==
  add_weapons_to_world(parse_room_array(world), chosen)

\* World.draw(screen)
draw(world, chosen) ==
  IF ~world.array_parsed
  THEN add_weapons_to_world(parse_room_array(world), chosen)
  ELSE world

(***************************************************************************)
(* gamestates.InGame: the key handlers, update, win and die.  A game is    *)
(* [world, hero, left_pressed, right_pressed, loop_count, went_to], where  *)
(* went_to is the state manager.go_to was last called with.                *)
(***************************************************************************)
InGame(room_list) ==
  [world |-> [World EXCEPT !.room_array = align_doors(room_list)],
   hero |-> Hero, left_pressed |-> FALSE, right_pressed |-> FALSE,
   loop_count |-> 0, went_to |-> "none"]

\* mutant: the probe is not undone
unprobe_missing(rect) == rect

\* self.hero.rect.y -= 2
unprobe(rect) == [rect EXCEPT !.y = @ - 2]

\* mutant: the jump does not look for a platform under the hero
jump_without_probe(gm) ==
  IF ~gm.hero.jumping
  THEN [gm EXCEPT !.world.yspeed = gm.hero.jump_height, !.hero.jumping = TRUE]
  ELSE IF gm.hero.can_doublejump /\ ~gm.hero.double_jumping
       THEN [gm EXCEPT !.world.yspeed = gm.hero.double_jump_height,
                       !.hero.double_jumping = TRUE]
       ELSE gm

jump(gm) ==
  IF ~gm.hero.jumping
  THEN LET probe == [gm.hero.rect EXCEPT !.y = @ + 2]
           hit_list == spritecollide(probe, gm.world, gm.world.block_list)
       IN  IF hit_list # {}
           THEN [gm EXCEPT !.hero.rect = unprobe(probe),
                           !.world.yspeed = gm.hero.jump_height,
                           !.hero.jumping = TRUE]
           ELSE [gm EXCEPT !.hero.rect = unprobe(probe)]
  ELSE IF gm.hero.can_doublejump /\ ~gm.hero.double_jumping
       THEN [gm EXCEPT !.world.yspeed = gm.hero.double_jump_height,
                       !.hero.double_jumping = TRUE]
       ELSE gm

move_left(gm) ==
  [gm EXCEPT !.left_pressed = TRUE,
             !.world.xspeed = gm.hero.actual_speed,
             !.hero.moving_right = FALSE,
             !.hero.moving_left = TRUE,
             !.hero.last_motion = "left"]

\* mutant: releasing LEFT stops the world whatever else is held
stop_moving_left_cancelling(gm) ==
  IF gm.hero.moving_left
  THEN [gm EXCEPT !.left_pressed = FALSE, !.world.xspeed = 0, !.hero.moving_left = FALSE]
  ELSE [gm EXCEPT !.left_pressed = FALSE]

stop_moving_left(gm) ==
  LET stopped == IF gm.hero.moving_left
                 THEN [gm EXCEPT !.world.xspeed = 0, !.hero.moving_left = FALSE]
                 ELSE gm
  IN  IF gm.right_pressed /\ ~gm.hero.moving_right
      THEN [stopped EXCEPT !.left_pressed = FALSE,
                           !.world.xspeed = -gm.hero.actual_speed,
                           !.hero.moving_right = TRUE,
                           !.hero.last_motion = "right"]
      ELSE [stopped EXCEPT !.left_pressed = FALSE]

move_right(gm) ==
  [gm EXCEPT !.right_pressed = TRUE,
             !.world.xspeed = -gm.hero.actual_speed,
             !.hero.moving_left = FALSE,
             !.hero.moving_right = TRUE,
             !.hero.last_motion = "right"]

stop_moving_right(gm) ==
  LET stopped == IF gm.hero.moving_right
                 THEN [gm EXCEPT !.world.xspeed = 0, !.hero.moving_right = FALSE]
                 ELSE gm
  IN  IF gm.left_pressed /\ ~gm.hero.moving_left
      THEN [stopped EXCEPT !.right_pressed = FALSE,
                           !.world.xspeed = gm.hero.actual_speed,
                           !.hero.moving_left = TRUE,
                           !.hero.last_motion = "left"]
      ELSE [stopped EXCEPT !.right_pressed = FALSE]

\* the branch of handle_events for one key event
Keys == {"move_left", "stop_moving_left", "move_right", "stop_moving_right", "jump",
         "throw_bomb"}

handle_events(gm, key) ==
  CASE key = "move_left" -> move_left(gm)
    [] key = "stop_moving_left" -> stop_moving_left(gm)
    [] key = "move_right" -> move_right(gm)
    [] key = "stop_moving_right" -> stop_moving_right(gm)
    [] key = "jump" -> jump(gm)
    [] key = "throw_bomb" -> throw_bomb(gm)

loop_number == 5

win(gm) ==
  IF gm.loop_count < loop_number
  THEN [gm EXCEPT !.loop_count = @ + 1, !.went_to = "UpgradeScreen"]
  ELSE [gm EXCEPT !.went_to = "WinScreen"]

\* InGame.update(): hero.update() changes nothing without GOD MODE; an
\* exception of World.update leaves the method before the two tests
in_game_update(gm) ==
  {IF g.world.raised # "none"
   THEN g
   ELSE LET died == IF g.hero.hp <= 0 THEN [g EXCEPT !.went_to = "DeathScreen"] ELSE g
        IN  IF ~died.world.run_timer THEN win(died) ELSE died
   : g \in update(gm)}

(***************************************************************************)
(* SpecTick: the frames of one InGame.  run.py calls handle_events, update *)
(* and draw on every frame; here the key handlers, InGame.update and       *)
(* World.draw are called in any order.  The games start as create_world    *)
(* leaves them, or at a point of a run: the hero has landed on the floor   *)
(* of StartingRoom (40 px below the spawn point) and walked right, or has  *)
(* gone down through the door into Room04, next to or above one of its     *)
(* end-timer walls.                                                        *)
(***************************************************************************)
MaxFrames == 3

MaxWeapons == 1

Level2 == <<"StartingRoom", "Room02", "EndingRoom">>
Level4 == <<"StartingRoom", "Room04", "EndingRoom">>

\* the levels and the displacements of the world at the points of a run
TickStarts == {<<Level0, <<-112, -40>>>>, <<Level4, <<-485, -488>>>>,
               <<Level4, <<-160, -230>>>>}

\* the outcomes of the random.randint tests of add_weapons_to_world with at
\* most k weapons spawned
RECURSIVE weapon_spawns(_, _)
weapon_spawns(nodes, k) ==
  IF k = 0
  THEN {{}}
  ELSE weapon_spawns(nodes, k - 1)
       \cup {S \cup {node} : S \in weapon_spawns(nodes, k - 1), node \in nodes}

TickInit ==
  /\ gen = Idle
  /\ rng = NoRng
  /\ tape = <<>>
  /\ runs = <<>>
  /\ aligned = NoLevel
  /\ game \in {InGame(Level0), InGame(Level2)}
              \cup {[InGame(s[1]) EXCEPT !.world = travelled(built_world(s[1]), s[2])] :
                      s \in TickStarts}
  /\ pre = game
  /\ last = Start(0)
  /\ search = NoSearch

Running ==
  /\ last.tick < MaxFrames
  /\ game.went_to = "none"
  /\ game.world.raised = "none"

HandleEvents(key) ==
  /\ Running
  /\ game' = handle_events(game, key)
  /\ pre' = game
  /\ last' = [op |-> key, x |-> 0, y |-> 0, tick |-> last.tick + 1]
  /\ UNCHANGED search
  /\ UNCHANGED levelvars

Update ==
  /\ Running
  /\ game' \in in_game_update(game)
  /\ pre' = game
  /\ last' = [op |-> "update", x |-> 0, y |-> 0, tick |-> last.tick + 1]
  /\ UNCHANGED search
  /\ UNCHANGED levelvars

Draw ==
  /\ Running
  /\ \E chosen \in IF game.world.array_parsed
                   THEN {{}}
                   ELSE weapon_spawns(passable_nodes(parse_room_array(game.world).nodes),
                                      MaxWeapons) :
       game' = [game EXCEPT !.world = draw(@, chosen)]
  /\ pre' = game
  /\ last' = [op |-> "draw", x |-> 0, y |-> 0, tick |-> last.tick + 1]
  /\ UNCHANGED search
  /\ UNCHANGED levelvars

TickNext ==
  \/ \E key \in Keys : HandleEvents(key)
  \/ Update
  \/ Draw

SpecTick == TickInit /\ [][TickNext]_vars

(***************************************************************************)
(* SpecReconstruct: a search of the default budget (came_from, current =   *)
(* self.a_star(hero)), then Enemy.reconstruct_path on its came_from with   *)
(* any node of the graph as goal.                                          *)
(***************************************************************************)
ReconstructPath(goal) ==
  /\ search.op = "a_star"
  /\ LET path == reconstruct_path(game.world.nodes, search.start, search.came_from, goal)
     IN  search' = [search EXCEPT !.op = "reconstruct_path", !.goal = goal,
                                  !.terminates = path.terminates, !.path = path.path]
  /\ pre' = game
  /\ last' = [op |-> "reconstruct_path", x |-> 0, y |-> 0, tick |-> last.tick + 1]
  /\ UNCHANGED game
  /\ UNCHANGED levelvars

ReconstructNext ==
  \/ \E e \in game.world.enemy_list : AStar(e, 7)
  \/ \E k \in 1..Len(game.world.nodes.nodes) : ReconstructPath(game.world.nodes.nodes[k])

SpecReconstruct == PathInit /\ [][ReconstructNext]_vars

(***************************************************************************)
(* Claims about the frames of a game                                       *)
(***************************************************************************)
\* C12: over any sequence of World.update, World.draw and key handler calls
\* on one World, only a draw that finds array_parsed False parses: it sets
\* array_parsed, no call clears it, and a draw that finds it set adds no
\* sprite (wall, enemy, drop) and no node.
C12_ParsedOnce ==
  [][/\ game.world.array_parsed => game'.world.array_parsed
     /\ last'.op # "draw" => game'.world.array_parsed = game.world.array_parsed
     /\ (last'.op = "draw" /\ ~game.world.array_parsed) => game'.world.array_parsed
     /\ (last'.op = "draw" /\ game.world.array_parsed) =>
          /\ game'.world.sprites = game.world.sprites
          /\ game'.world.all_sprites = game.world.all_sprites
          /\ game'.world.nodes = game.world.nodes]_vars

\* draw, update, draw on a world created for StartingRoom, Room02,
\* EndingRoom: the second draw found the parsed world moved by one tick
C12_Witness ==
  /\ game.world.room_array = align_doors(Level2)
  /\ last.op = "draw" /\ last.tick = 3
  /\ pre.world.array_parsed
  /\ pre.world.yspeed # 0
  /\ game.world.block_list # {}

\* the cells <<r, c>> (from 0) of a grid whose character is, or is not, '&'
cells(room_array, blank) ==
  {rc \in UNION {{<<r, c>> : c \in 0..(Len(room_array[r + 1]) - 1)} :
                   r \in 0..(Len(room_array) - 1)} :
     (room_array[rc[1] + 1][rc[2] + 1] = "&") = blank}

\* the centre of the cell <<r, c>>: x0 is WIDTH / 2 - 128 less 64 for every
\* '&' of the first row, y0 is HEIGHT / 2 - 128
cell_center(room_array, rc) ==
  LET x0 == WIDTH \div 2 - 128 - 64 * Cardinality({c \in 1..Len(room_array[1]) :
                                                      room_array[1][c] = "&"})
      y0 == HEIGHT \div 2 - 128
  IN  <<x0 + 64 * rc[2] + 32, y0 + 64 * rc[1] + 32>>

\* C13: right after parse_room_array the graph has as many nodes as the grid
\* has characters other than '&', one at the centre of each such cell and
\* no two at one coordinate; a '&' cell has no node and no sprite.
C13_NodePerCell ==
  (last.op = "draw" /\ ~pre.world.array_parsed) =>
    LET ra == game.world.room_array
        nodes == game.world.nodes.nodes
    IN  /\ Len(nodes) = Cardinality(cells(ra, FALSE))
        /\ {nodes[k] : k \in 1..Len(nodes)} =
             {cell_center(ra, rc) : rc \in cells(ra, FALSE)}
        /\ \A j, k \in 1..Len(nodes) : nodes[j] = nodes[k] => j = k
        /\ \A rc \in cells(ra, TRUE) :
             \A id \in game.world.all_sprites :
               center_of(game.world.sprites[id].rect) # cell_center(ra, rc)

\* the grid of StartingRoom, Room02, EndingRoom, whose first row starts with
\* five '&', has just been parsed
C13_Witness ==
  /\ last.op = "draw" /\ ~pre.world.array_parsed
  /\ game.world.room_array = align_doors(Level2)
  /\ cells(game.world.room_array, TRUE) # {}
  /\ game.world.room_array[1][1] = "&"
  /\ Len(game.world.nodes.nodes) > 0

\* C17: hero.rect is the same before and after every InGame.update (and the
\* World.update and move_world in it) and every key handler, jump with its
\* 2-pixel probe included: the rect stays where Hero.__init__ centred it.
C17_HeroRectFixed == game.hero.rect = Hero.rect

\* C14: reconstruct_path returns, with the path accumulated so far, when
\* the predecessor chain of the given node reaches a node that is no key of
\* came_from.
C14_ReconstructReturns ==
  (search.op = "reconstruct_path" /\ search.goal \notin DOMAIN search.came_from)
    => search.terminates

\* C15: one World.update leaves the world as the sub-phases leave it when
\* run in the order gravity, bomb physics, x-axis and y-axis collision
\* resolution, enemy update, combat: the enemies are updated after the
\* world has been moved and corrected for the tick.
C15_EnemiesUpdatedAfterMove ==
  (last.op = "update" /\ game.world.raised = "none") =>
    game.world \in {g.world : g \in update_enemies_after_move(pre)}

\* the hero meets an end_timer wall in the x phase of the coming update, or
\* meets no wall in the x phase and an end_timer wall in the y phase
hits_end_timer(gm) ==
  LET w == calc_gravity(gm.world)
      at(block, dx, dy) == [w.sprites[block].rect EXCEPT !.x = @ + dx, !.y = @ + dy]
      x_hits == {block \in w.block_list :
                   colliderect(at(block, w.xspeed, 0), gm.hero.rect)}
      y_hits == {block \in w.block_list :
                   colliderect(at(block, w.xspeed, w.yspeed), gm.hero.rect)}
  IN  \/ \E block \in x_hits : w.sprites[block].end_timer
      \/ x_hits = {} /\ \E block \in y_hits : w.sprites[block].end_timer

\* C16: run_timer starts True; the update in which the hero collides with an
\* end_timer wall (x or y phase) clears it; nothing sets it back; and the
\* InGame.update that finds it False leaves for the upgrade or the win
\* screen in that same tick, while no other step clears it.
C16_RunTimerEndsLevel ==
  /\ game.world.run_timer
  /\ [][/\ ~game.world.run_timer => ~game'.world.run_timer
        /\ (game.world.run_timer /\ ~game'.world.run_timer)
             => /\ last'.op = "update"
                /\ game'.went_to \in {"UpgradeScreen", "WinScreen"}
        /\ (last'.op = "update" /\ game'.world.raised = "none" /\ hits_end_timer(game))
             => ~game'.world.run_timer
        /\ (last'.op = "update" /\ game'.world.raised = "none")
             => (game'.went_to \in {"UpgradeScreen", "WinScreen"}
                   <=> ~game'.world.run_timer)]_vars

C16_Witness ==
  /\ last.op = "update"
  /\ pre.world.run_timer /\ ~game.world.run_timer
  /\ pre.world.xspeed = 0 /\ hits_end_timer(pre)
  /\ game.went_to = "UpgradeScreen" /\ game.loop_count = 1

C17_Witness ==
  /\ last.op = "jump"
  /\ game.hero.jumping /\ ~pre.hero.jumping
  /\ game.world.yspeed = game.hero.jump_height

\* C18: once the room array is parsed, the node of every 'P' tile (the
\* centre of a wall of spikes_list) is impassable: Graph.passable is False
\* for it and get_neighbors of no node offers it.
C18_SpikeNodesImpassable ==
  game.world.array_parsed =>
    \A spike \in game.world.spikes_list :
      LET node == center_of(game.world.sprites[spike].rect)
      IN  /\ ~passable(game.world.nodes, node)
          /\ \A k \in 1..Len(game.world.nodes.nodes) :
               \A j \in 1..Len(get_neighbors(game.world.nodes, game.world.nodes.nodes[k])) :
                 get_neighbors(game.world.nodes, game.world.nodes.nodes[k])[j] # node

\* the first and the last layout row of the template both hold a "DD"
has_door_markers(key) ==
  /\ find_DD(room_dict[key][2]) >= 0
  /\ find_DD(Last(room_dict[key])) >= 0

\* C19: align_doors is run only on templates whose first and last layout
\* rows both hold a "DD" marker (a template without one was rejected when
\* the catalog was loaded).
C19_UnmarkedTemplatesRejected ==
  aligned.pc = "aligned" =>
    \A i \in 1..Len(aligned.room_list) : has_door_markers(aligned.room_list[i])

\* the offset of room k as the claim computes it: the column of the first
\* "DD" in the last row of the grid built so far (room k-1's last row, pushed
\* right by room k-1's own offset when that was positive) minus the column
\* of the first "DD" in room k's first row
RECURSIVE offset_of(_, _)
offset_of(room_list, k) ==
  IF k <= 1
  THEN 0
  ELSE LET before == offset_of(room_list, k - 1)
       IN  (IF before > 0 THEN before ELSE 0)
             + find_DD(Last(room_dict[room_list[k - 1]]))
             - find_DD(room_dict[room_list[k]][2])

\* the "&" in front of every row of room k in the finished grid: its own
\* offset when positive, plus |offset| of every later room with offset < 0
RECURSIVE pushed_later(_, _)
pushed_later(room_list, k) ==
  IF k >= Len(room_list)
  THEN 0
  ELSE (IF offset_of(room_list, k + 1) < 0 THEN -offset_of(room_list, k + 1) ELSE 0)
         + pushed_later(room_list, k + 1)

blanks_of(room_list, k) ==
  (IF offset_of(room_list, k) > 0 THEN offset_of(room_list, k) ELSE 0)
    + pushed_later(room_list, k)

\* C20: align_doors pads the incoming room by offset when offset >= 0 and
\* the rows already in the grid by |offset| when offset < 0, offset being
\* (first "DD" of the grid's last row) - (first "DD" of the room's first
\* row); the first room goes in as it is, without its direction tag.  So
\* the grid is the rooms' rows in order, each behind blanks_of "&".
C20_PaddingByOffset ==
  aligned.pc = "aligned" =>
    /\ Len(aligned.room_array) = rows_before(aligned.room_list, Len(aligned.room_list) + 1)
    /\ \A k \in 1..Len(aligned.room_list) :
         \A r \in 1..rows_of(aligned.room_list[k]) :
           aligned.room_array[rows_before(aligned.room_list, k) + r]
             = [j \in 1..blanks_of(aligned.room_list, k) |-> "&"]
                 \o room_dict[aligned.room_list[k]][r + 1]

\* a room with a negative offset is followed by a room with a positive one,
\* and the first room was pushed right by the former
C20_Witness ==
  /\ aligned.pc = "aligned"
  /\ \E j, k \in 2..Len(aligned.room_list) :
       /\ j < k
       /\ offset_of(aligned.room_list, j) < 0
       /\ offset_of(aligned.room_list, k) > 0
  /\ aligned.room_array[1][1] = "&"

(***************************************************************************)
(* SpecParse: parse_room_array on the grid of every level generate_world   *)
(* can return for n in 0..MaxParseRooms, as World.draw calls it on the     *)
(* first frame.                                                            *)
(***************************************************************************)
MaxParseRooms == 2

ParseInit ==
  /\ gen = Idle
  /\ rng = NoRng
  /\ tape = <<>>
  /\ runs = <<>>
  /\ aligned = NoLevel
  /\ game \in {InGame(rl) : rl \in generated_lists(MaxParseRooms)}
  /\ pre = game
  /\ last = Start(0)
  /\ search = NoSearch

ParseRoomArray ==
  /\ ~game.world.array_parsed
  /\ game.world.raised = "none"
  /\ game' = [game EXCEPT !.world = parse_room_array(@)]
  /\ pre' = game
  /\ last' = [op |-> "parse_room_array", x |-> 0, y |-> 0, tick |-> last.tick + 1]
  /\ UNCHANGED search
  /\ UNCHANGED levelvars

ParseNext == ParseRoomArray

SpecParse == ParseInit /\ [][ParseNext]_vars

(***************************************************************************)
(* SpecNeighbors: Graph.get_neighbors(node) for every node of the graph of *)
(* a parsed world, at the spawn point and after the world has travelled.   *)
(***************************************************************************)
NeighborStarts ==
  {<<Level0, <<0, 0>>>>, <<Level2, <<0, 0>>>>, <<Level3, <<-424, -296>>>>}

NeighborsInit ==
  /\ gen = Idle
  /\ rng = NoRng
  /\ tape = <<>>
  /\ runs = <<>>
  /\ aligned = NoLevel
  /\ game \in {[world |-> travelled(built_world(s[1]), s[2]), hero |-> Hero] :
                 s \in NeighborStarts}
  /\ pre = game
  /\ last = Start(0)
  /\ search = NoSearch

GetNeighbors(node) ==
  /\ search.op = "none"
  /\ search' = [op |-> "get_neighbors", node |-> node,
                neighbors |-> get_neighbors(game.world.nodes, node)]
  /\ pre' = game
  /\ last' = [op |-> "get_neighbors", x |-> 0, y |-> 0, tick |-> last.tick + 1]
  /\ UNCHANGED game
  /\ UNCHANGED levelvars

NeighborsNext ==
  \E k \in 1..Len(game.world.nodes.nodes) : GetNeighbors(game.world.nodes.nodes[k])

SpecNeighbors == NeighborsInit /\ [][NeighborsNext]_vars

(***************************************************************************)
(* SpecQueue: helpers.Queue driven as a_star drives it: put(node,          *)
(* priority) and get() in any order, no (priority, node) pair put while    *)
(* it is in the heap.  search.order lists the entries of the heap in the   *)
(* order they were put.                                                    *)
(***************************************************************************)
MaxQueue == 3

QueueItems == {<<587, 288>>, <<651, 224>>, <<523, 352>>}

QueuePriorities == {192, 193}

QueueInit ==
  /\ gen = Idle
  /\ rng = NoRng
  /\ tape = <<>>
  /\ runs = <<>>
  /\ aligned = NoLevel
  /\ game = NoGame
  /\ pre = NoGame
  /\ last = NoOp
  /\ search = [op |-> "Queue", elements |-> Queue, order |-> <<>>,
               before |-> <<>>, got |-> None]

QueuePut(item, priority) ==
  /\ Len(search.order) < MaxQueue
  /\ <<priority, item>> \notin search.elements
  /\ search' = [search EXCEPT !.op = "put",
                              !.elements = put(@, item, priority),
                              !.order = Append(@, <<priority, item>>),
                              !.before = search.order]
  /\ UNCHANGED <<game, pre, last>>
  /\ UNCHANGED levelvars

QueueGet ==
  /\ ~is_empty(search.elements)
  /\ search' = [search EXCEPT !.op = "get",
                              !.got = get(search.elements),
                              !.elements = @ \ {heappop(search.elements)},
                              !.order = remove(@, heappop(search.elements)),
                              !.before = search.order]
  /\ UNCHANGED <<game, pre, last>>
  /\ UNCHANGED levelvars

QueueNext ==
  \/ \E item \in QueueItems, priority \in QueuePriorities : QueuePut(item, priority)
  \/ QueueGet

SpecQueue == QueueInit /\ [][QueueNext]_vars

(***************************************************************************)
(* SpecFollow: calls of Enemy.pathfind, one per tick, on one enemy that    *)
(* starts on the centre of a passable node with pathfind_timer = 0 and no  *)
(* path, as __init__ leaves it.  The enemy is a FireBat (speed 4) or has   *)
(* the attributes of the base class (speed 3).  The hero stands still, so  *)
(* the nodes do not move.                                                  *)
(***************************************************************************)
FollowKinds == {"Enemy", "FireBat"}

\* the node the 'try' block of pathfind pops in a call on enemy e, None if
\* it pops nothing: after a search the path starts at the nearest node
popped_node(gm, e) ==
  LET enemy == gm.world.sprites[e]
      nodes == gm.world.nodes.nodes
      c == center_of(enemy.rect)
      first == IF enemy.pathfind_timer = 0
               THEN get_nearest_node(nodes, c)
               ELSE IF Len(enemy.path) > 0 THEN nodes[enemy.path[1] + 1] ELSE None
  IN  IF first = c THEN c ELSE None

\* the node the enemy e is heading for, None if its path is empty
waypoint(gm, e) ==
  LET path == gm.world.sprites[e].path
  IN  IF Len(path) > 0 THEN gm.world.nodes.nodes[path[1] + 1] ELSE None

FollowInit ==
  /\ gen = Idle
  /\ rng = NoRng
  /\ tape = <<>>
  /\ runs = <<>>
  /\ aligned = NoLevel
  /\ \E d \in PathTravels, kind \in FollowKinds :
       LET world == travelled(built_world(Level0), d)
       IN  \E e \in world.enemy_list, node \in passable_nodes(world.nodes) :
             /\ game = [world |-> [enemy_at(world, e, node) EXCEPT !.sprites[e].kind = kind],
                        hero |-> Hero]
             /\ search = [op |-> "placed", enemy |-> e, from |-> None,
                          target |-> None, reached |-> FALSE, calls |-> 0]
  /\ pre = game
  /\ last = Start(0)

\* a frame of the game loop reaches the enemy's update: World.update calls
\* enemy_list.update(hero) once per frame.  last.tick is the parity of the
\* frame.
Frame ==
  /\ search.op \in {"placed", "pathfind"}
  /\ game.world.raised = "none"
  /\ last' = [op |-> "pathfind", x |-> 0, y |-> 0, tick |-> (last.tick + 1) % 2]

\* one call of pathfind(hero) on the enemy.  search.from and search.target
\* are the node popped last and the waypoint that followed it;
\* search.reached tells that this call popped the target; search.calls
\* counts the calls from the last one entered with pathfind_timer = 0 on.
Pathfind ==
  /\ Frame
  /\ game' = pathfind(game, search.enemy)
  /\ search' = [op |-> "pathfind",
                enemy |-> search.enemy,
                from |-> IF popped_node(game, search.enemy) # None
                         THEN popped_node(game, search.enemy) ELSE search.from,
                target |-> IF popped_node(game, search.enemy) # None
                           THEN waypoint(game', search.enemy) ELSE search.target,
                reached |-> /\ popped_node(game, search.enemy) # None
                            /\ popped_node(game, search.enemy) = search.target,
                calls |-> IF game.world.sprites[search.enemy].pathfind_timer = 0
                          THEN 1 ELSE search.calls + 1]
  /\ pre' = game
  /\ UNCHANGED levelvars

FollowNext == Pathfind

SpecFollow == FollowInit /\ [][FollowNext]_vars

\* the game loop runs a frame after a frame: the frame that is due is taken
SpecFollowFair == SpecFollow /\ WF_last(Frame)

(***************************************************************************)
(* Claims about the run counters, the wall list of the graph, the tile     *)
(* parser, the neighbours, the heuristic, the frontier and the paths       *)
(***************************************************************************)
\* the rooms accepted so far: room_list without StartingRoom and, once the
\* call has returned, without EndingRoom
accepted(g) ==
  SubSeq(g.room_list, 2, IF g.pc = "done" THEN Len(g.room_list) - 1 ELSE Len(g.room_list))

\* the length of the run of rooms tagged d that ends s
RECURSIVE run_at_end(_, _)
run_at_end(s, d) ==
  IF Len(s) = 0 \/ tag_of(Last(s)) # d
  THEN 0
  ELSE 1 + run_at_end(SubSeq(s, 1, Len(s) - 1), d)

\* C21: accepting a room adds 1 to the counter of its direction and zeroes
\* the other two, a rejected candidate changes no counter; so at most one
\* counter is non-zero and each counter is the length of the run of its
\* direction that ends the accepted rooms.
C21_CountersFollowRun ==
  /\ [](gen.pc \in {"sampling", "done"} =>
          /\ gen.move_down_counter = run_at_end(accepted(gen), MoveDown)
          /\ gen.move_left_counter = run_at_end(accepted(gen), MoveLeft)
          /\ gen.move_right_counter = run_at_end(accepted(gen), MoveRight)
          /\ Cardinality({d \in {"down", "left", "right"} :
                            CASE d = "down" -> gen.move_down_counter # 0
                              [] d = "left" -> gen.move_left_counter # 0
                              [] d = "right" -> gen.move_right_counter # 0}) <= 1)
  /\ [][IF gen'.i = gen.i
        THEN /\ gen'.move_down_counter = gen.move_down_counter
             /\ gen'.move_left_counter = gen.move_left_counter
             /\ gen'.move_right_counter = gen.move_right_counter
        ELSE LET tag == tag_of(gen'.room_list[Len(gen.room_list) + 1])
             IN  /\ gen'.i = gen.i + 1
                 /\ gen'.move_down_counter =
                      IF tag = MoveDown THEN gen.move_down_counter + 1 ELSE 0
                 /\ gen'.move_left_counter =
                      IF tag = MoveLeft THEN gen.move_left_counter + 1 ELSE 0
                 /\ gen'.move_right_counter =
                      IF tag = MoveRight THEN gen.move_right_counter + 1 ELSE 0]_vars

\* a run of two MoveLeft rooms was cut by a room of another direction whose
\* counter is now 2, the MoveLeft counter back at 0
C21_Witness ==
  /\ gen.pc = "sampling"
  /\ Len(accepted(gen)) = 4
  /\ tag_of(accepted(gen)[1]) = MoveLeft /\ tag_of(accepted(gen)[2]) = MoveLeft
  /\ tag_of(accepted(gen)[3]) # MoveLeft
  /\ gen.move_left_counter = 0
  /\ gen.move_down_counter + gen.move_right_counter = 2

\* the Python index in graph.nodes of the centre of wall block, -1 if none
node_index_of(world, block) ==
  index(world.nodes.nodes, center_of(world.sprites[block].rect))

tile(room_array, rc) == room_array[rc[1] + 1][rc[2] + 1]

\* the sprites centred on a node
sprites_at(world, node) ==
  {id \in world.all_sprites : center_of(world.sprites[id].rect) = node}

four_around(node) ==
  {<<node[1] + 64, node[2]>>, <<node[1], node[2] + 64>>,
   <<node[1] - 64, node[2]>>, <<node[1], node[2] - 64>>}

\* the coordinates stored in the graph, and those whose index is in walls
stored(graph) == {graph.nodes[k] : k \in 1..Len(graph.nodes)}

walled(graph) == {graph.nodes[graph.walls[k] + 1] : k \in 1..Len(graph.walls)}

\* C24: get_neighbors(node) returns, each once, exactly those of the four
\* coordinates around node that are stored nodes and whose index is not in
\* walls; a coordinate that is no stored node is left out.
C24_NeighborsArePassableNodes ==
  search.op = "get_neighbors" =>
    /\ {search.neighbors[k] : k \in 1..Len(search.neighbors)}
         = (four_around(search.node) \cap stored(game.world.nodes))
             \ walled(game.world.nodes)
    /\ \A j, k \in 1..Len(search.neighbors) :
         search.neighbors[j] = search.neighbors[k] => j = k

\* a node with a neighbour that is a wall, one that is no stored node and
\* one that is returned
C24_Witness ==
  /\ search.op = "get_neighbors"
  /\ Len(search.neighbors) > 0
  /\ four_around(search.node) \cap walled(game.world.nodes) # {}
  /\ four_around(search.node) \ stored(game.world.nodes) # {}

\* C25: for the start and the goal of a search, Graph.heuristic is at most
\* the cost of the cheapest path between them, every edge of the path
\* charged Graph.cost.
C25_HeuristicAdmissible ==
  ( /\ search.op = "a_star"
    /\ breadth_first_distance(pre.world.nodes, search.start, search.goal) >= 0 )
  => heuristic(search.goal, search.start)
       <= breadth_first_distance(pre.world.nodes, search.start, search.goal)
            * cost(search.start, search.goal)

\* the entries of the least priority in a list of (priority, item) entries,
\* as positions of the list
least(order) ==
  {k \in 1..Len(order) : \A j \in 1..Len(order) : order[k][1] <= order[j][1]}

\* C26 as stated: Queue.get returns, among the entries of the least
\* priority, the one that was put first.
C26_TiesByInsertion ==
  search.op = "get" => search.got = search.before[MinOf(least(search.before))][2]

\* C26 amended: Queue.get returns an entry of the least priority and, among
\* those, the one with the least node tuple (x first, then y), whatever the
\* order in which they were put.
C26_TiesByNode ==
  search.op = "get" =>
    \E k \in least(search.before) :
      /\ search.got = search.before[k][2]
      /\ \A j \in least(search.before) \ {k} :
           \/ search.before[k][2][1] < search.before[j][2][1]
           \/ /\ search.before[k][2][1] = search.before[j][2][1]
              /\ search.before[k][2][2] < search.before[j][2][2]

\* three entries of one priority were in the heap and the one returned was
\* not the one put first
C26_Witness ==
  /\ search.op = "get"
  /\ Cardinality(least(search.before)) = 3
  /\ search.got # search.before[1][2]

\* node is linked to start by at most fuel predecessor steps of came_from
RECURSIVE chained(_, _, _, _)
chained(came_from, start, node, fuel) ==
  \/ node = start
  \/ /\ fuel > 0
     /\ node \in DOMAIN came_from
     /\ chained(came_from, start, came_from[node], fuel - 1)

\* C27: one call of a_star(hero, n) removes at most n nodes from the
\* frontier, returns the node it removed last, and that node and every
\* other key of came_from is linked to the start node by predecessors that
\* are keys of came_from.
C27_BoundedSearchChained ==
  search.op = "a_star" =>
    /\ Len(search.expanded) <= search.n
    /\ Len(search.expanded) > 0
    /\ search.current = Last(search.expanded)
    /\ search.current \in DOMAIN search.came_from
    /\ search.came_from[search.start] = None
    /\ \A node \in DOMAIN search.came_from :
         chained(search.came_from, search.start, node,
                 Cardinality(DOMAIN search.came_from))

\* the budget of 7 was used up before the goal was removed, on a graph
\* with more than 7 nodes known to the search
C27_Witness ==
  /\ search.op = "a_star"
  /\ search.n = 7
  /\ Len(search.expanded) = 7
  /\ search.current # search.goal
  /\ Cardinality(DOMAIN search.came_from) > 7

\* the path of the last search as node coordinates
path_nodes == [k \in 1..Len(search.path) |-> pre.world.nodes.nodes[search.path[k] + 1]]

\* a and b differ by exactly 64 on exactly one axis
one_step(a, b) ==
  \/ a[2] = b[2] /\ Abs(a[1] - b[1]) = 64
  \/ a[1] = b[1] /\ Abs(a[2] - b[2]) = 64

\* C28: a_star followed by reconstruct_path always yields a path; it starts
\* at the enemy's nearest node, consecutive nodes are one step of 64 apart
\* on one axis, and every node after the first is passable.
C28_PathIsWalk ==
  search.op = "a_star" =>
    /\ search.terminates
    /\ Len(search.path) >= 1
    /\ \A k \in 1..Len(search.path) : search.path[k] >= 0
    /\ path_nodes[1] = search.start
    /\ path_nodes[Len(search.path)] = search.current
    /\ \A k \in 1..(Len(search.path) - 1) : one_step(path_nodes[k], path_nodes[k + 1])
    /\ \A k \in 2..Len(search.path) : passable(pre.world.nodes, path_nodes[k])

\* a search that ran out of budget short of the goal gave a path of at
\* least three nodes
C28_Witness ==
  /\ search.op = "a_star"
  /\ search.left = 0
  /\ search.current # search.goal
  /\ search.terminates
  /\ Len(search.path) >= 3

\* the enemy of SpecFollow before and after the last call of pathfind
was == pre.world.sprites[search.enemy]

now == game.world.sprites[search.enemy]

\* -1, 0 or 1
sign(k) == IF k > 0 THEN 1 ELSE IF k < 0 THEN -1 ELSE 0

\* the last call moved the enemy by its speed on each axis towards the
\* waypoint it has after the call, and dropped the first node of the path
\* exactly when the enemy stood on it
stepped ==
  LET s == enemy_class(was.kind).speed
      c == center_of(was.rect)
      node == waypoint(game, search.enemy)
  IN  /\ IF node = None
         THEN now.rect = was.rect
         ELSE /\ now.rect.x = was.rect.x + s * sign(node[1] - c[1])
              /\ now.rect.y = was.rect.y + s * sign(node[2] - c[2])
      /\ was.pathfind_timer > 0 =>
           now.path = IF popped_node(pre, search.enemy) # None
                      THEN Tail(was.path) ELSE was.path

\* C29: every call of pathfind moves the enemy by its speed per axis towards
\* the first node of its path and drops that node exactly when the enemy's
\* centre is on it; an enemy that starts on a node centre with the next
\* waypoint 64 away on one axis gets to that waypoint and drops it after
\* finitely many calls, with speed 3 as with speed 4.
C29_FollowsAndArrives ==
  /\ [](search.op = "pathfind" => stepped)
  /\ (search.target # None /\ one_step(search.from, search.target)) ~> search.reached

\* the same for the FireBat alone
FireBatFollowsAndArrives ==
  /\ [](search.op = "pathfind" => stepped)
  /\ (/\ now.kind = "FireBat"
      /\ search.target # None
      /\ one_step(search.from, search.target)) ~> search.reached

\* C30: a call of pathfind that leaves the enemy without a waypoint (its
\* path was empty and is not searched again, or the node it stood on was
\* the last one) moves the enemy on neither axis and raises nothing.
C30_NoWaypointNoMove ==
  (search.op = "pathfind" /\ waypoint(game, search.enemy) = None) =>
    /\ now.rect = was.rect
    /\ game.world.raised = "none"

\* a call that found the path already empty and did not search again
C30_Witness ==
  /\ search.op = "pathfind"
  /\ Len(was.path) = 0
  /\ was.pathfind_timer > 0
  /\ waypoint(game, search.enemy) = None

(***************************************************************************)
(* SpecJump: the hero of Level0 from the spawn point on, standing still or *)
(* walking left: InGame.jump on any frame, and World.calc_gravity and      *)
(* World.move_world(hero, xspeed, yspeed) in the order World.update calls  *)
(* them.  The hero is the base Hero or a Jumpy.                            *)
(***************************************************************************)
\* hero.Jumpy
Jumpy ==
  [Hero EXCEPT !.jump_height = 15, !.double_jump_height = 15,
               !.can_doublejump = TRUE, !.take_falldamage = FALSE]

\* the hero walking left: what InGame.move_left leaves
walking_left(gm) ==
  [gm EXCEPT !.world.xspeed = gm.hero.actual_speed,
             !.hero.moving_left = TRUE,
             !.hero.last_motion = "left"]

JumpInit ==
  /\ gen = Idle
  /\ rng = NoRng
  /\ tape = <<>>
  /\ runs = <<>>
  /\ aligned = NoLevel
  /\ \E hero \in {Hero, Jumpy} :
       LET gm == [world |-> built_world(Level0), hero |-> hero]
       IN  game \in {gm, walking_left(gm)}
  /\ pre = game
  /\ last = Start(0)
  /\ search = NoSearch

\* the UP key between two frames
Jump ==
  /\ last.op \in {"start", "move_world"}
  /\ game' = jump(game)
  /\ pre' = game
  /\ last' = [op |-> "jump", x |-> 0, y |-> 0, tick |-> 0]
  /\ UNCHANGED search
  /\ UNCHANGED levelvars

\* self.calc_gravity(), the first statement of World.update
CalcGravity ==
  /\ last.op \in {"start", "move_world", "jump"}
  /\ game' = [game EXCEPT !.world = calc_gravity(@)]
  /\ pre' = game
  /\ last' = [op |-> "calc_gravity", x |-> 0, y |-> 0, tick |-> 0]
  /\ UNCHANGED search
  /\ UNCHANGED levelvars

\* self.move_world(hero, self.xspeed, self.yspeed) of World.update
MoveWorldOfUpdate ==
  /\ last.op = "calc_gravity"
  /\ game' \in move_world(game, game.world.xspeed, game.world.yspeed)
  /\ pre' = game
  /\ last' = [op |-> "move_world", x |-> game.world.xspeed, y |-> game.world.yspeed,
              tick |-> 0]
  /\ UNCHANGED search
  /\ UNCHANGED levelvars

JumpNext ==
  \/ Jump
  \/ CalcGravity
  \/ MoveWorldOfUpdate

SpecJump == JumpInit /\ [][JumpNext]_vars

(***************************************************************************)
(* SpecBomb: one bomb from the throw to the detonation.  The hero stands   *)
(* on the floor of StartingRoom, somewhere between the place it landed on  *)
(* and the door, facing left or right; World.update calls                  *)
(* cause_bomb_gravity and then det_bombs in every frame.                   *)
(***************************************************************************)
MaxSteps == 12

\* the displacements of the world after k steps of 7 px to the right
BombTravels == {<<-112 - 7 * k, -40>> : k \in 0..MaxSteps}

BombInit ==
  /\ gen = Idle
  /\ rng = NoRng
  /\ tape = <<>>
  /\ runs = <<>>
  /\ aligned = NoLevel
  /\ \E d \in BombTravels, last_motion \in {"left", "right"} :
       game = [world |-> travelled(built_world(Level0), d),
               hero |-> [Hero EXCEPT !.last_motion = last_motion]]
  /\ pre = game
  /\ last = Start(0)
  /\ search = NoSearch

BombThrown ==
  /\ last.op = "start"
  /\ game' = throw_bomb(game)
  /\ pre' = game
  /\ last' = [op |-> "throw_bomb", x |-> 0, y |-> 0, tick |-> 0]
  /\ UNCHANGED search
  /\ UNCHANGED levelvars

BombFlies ==
  /\ last.op \in {"throw_bomb", "det_bombs"}
  /\ game.world.raised = "none"
  /\ game.world.bomb_list # {}
  /\ game' = [game EXCEPT !.world = cause_bomb_gravity(@)]
  /\ pre' = game
  /\ last' = [op |-> "cause_bomb_gravity", x |-> 0, y |-> 0, tick |-> 0]
  /\ UNCHANGED search
  /\ UNCHANGED levelvars

BombsDetonate ==
  /\ last.op = "cause_bomb_gravity"
  /\ \E world \in det_bombs(game.world) : game' = [game EXCEPT !.world = world]
  /\ pre' = game
  /\ last' = [op |-> "det_bombs", x |-> 0, y |-> 0, tick |-> 0]
  /\ UNCHANGED search
  /\ UNCHANGED levelvars

BombNext ==
  \/ BombThrown
  \/ BombFlies
  \/ BombsDetonate

SpecBomb == BombInit /\ [][BombNext]_vars

(***************************************************************************)
(* SpecKeys: the LEFT and RIGHT key events of InGame.handle_events, in any *)
(* order, for the heroes of hero.hero_list in two levels.                   *)
(***************************************************************************)
Demo == [Hero EXCEPT !.bombs = 5, !.max_bombs = 5]

Speedy == [Hero EXCEPT !.hp = 250, !.actual_speed = 10, !.jump_height = 15]

MoveKeys == {"move_left", "stop_moving_left", "move_right", "stop_moving_right"}

KeysInit ==
  /\ gen = Idle
  /\ rng = NoRng
  /\ tape = <<>>
  /\ runs = <<>>
  /\ aligned = NoLevel
  /\ \E hero \in {Demo, Jumpy, Speedy}, room_list \in {Level0, Level2} :
       game = [InGame(room_list) EXCEPT !.hero = hero]
  /\ pre = game
  /\ last = Start(0)
  /\ search = NoSearch

KeyEvent(key) ==
  /\ game' = handle_events(game, key)
  /\ pre' = game
  /\ last' = [op |-> key, x |-> 0, y |-> 0, tick |-> 0]
  /\ UNCHANGED search
  /\ UNCHANGED levelvars

KeysNext == \E key \in MoveKeys : KeyEvent(key)

SpecKeys == KeysInit /\ [][KeysNext]_vars

(***************************************************************************)
(* SpecLoop: the main loop of run.py from the frame in which a menu's      *)
(* handle_events calls manager.go_to(InGame(...)): that frame goes on with *)
(* manager.state.update() and manager.state.draw(screen) of the new state, *)
(* every later frame is handle_events, update, draw.                       *)
(***************************************************************************)
LoopInit ==
  /\ gen = Idle
  /\ rng = NoRng
  /\ tape = <<>>
  /\ runs = <<>>
  /\ aligned = NoLevel
  /\ game \in {InGame(Level0), InGame(Level2), InGame(Level4)}
  /\ pre = game
  /\ last = Start(0)
  /\ search = NoSearch

LoopNext ==
  \/ last.op = "draw" /\ \E key \in Keys : HandleEvents(key)
  \/ last.op \in Keys \cup {"start"} /\ Update
  \/ last.op = "update" /\ Draw

SpecLoop == LoopInit /\ [][LoopNext]_vars

(***************************************************************************)
(* Claims about the search timer, gravity and landing, the jump, the bombs *)
(* the key handlers, the shape of the grid and the main loop               *)
(***************************************************************************)
\* the path a search from the enemy's place before the last call gives
searched ==
  LET graph == pre.world.nodes
  IN  path_found(graph,
                 get_nearest_node(graph.nodes, center_of(was.rect)),
                 a_star(graph,
                        get_nearest_node(graph.nodes, center_of(was.rect)),
                        get_nearest_node(graph.nodes, center_of(pre.hero.rect)), 7))

\* path without its first node if the last call popped one
after_pop(path) == IF popped_node(pre, search.enemy) # None THEN Tail(path) ELSE path

\* C31: a call of pathfind entered with pathfind_timer = 0 searches a new
\* path and leaves the timer at 16; any other call keeps the path it has and
\* takes 1 off the timer; the timer stays in 0..16 and a call entered with
\* timer 0 is the 17th call counted from the search before it.
C31_SearchEvery17Calls ==
  search.op = "pathfind" =>
    /\ now.pathfind_timer \in 0..16
    /\ IF was.pathfind_timer = 0
       THEN /\ now.pathfind_timer = 16
            /\ now.path = after_pop(searched)
            /\ search.calls = 1
       ELSE /\ now.pathfind_timer = was.pathfind_timer - 1
            /\ now.path = after_pop(was.path)
            /\ search.calls > 1
    /\ now.pathfind_timer + search.calls = 17

\* the second search of an enemy whose place has changed since the first
C31_Witness ==
  /\ search.op = "pathfind"
  /\ was.pathfind_timer = 0
  /\ was.path # <<>>
  /\ now.path # was.path
  /\ now.pathfind_timer = 16

\* the walls the hero collides with in the y phase of the last move_world,
\* for the outcome after_x of its x phase
y_hit_list(after_x, y) ==
  LET shifted == movey(after_x.world, after_x.world.all_sprites, y)
  IN  spritecollide(after_x.hero.rect, shifted, shifted.block_list)

\* the outcomes of the x phase of the last move_world that lead to the
\* state reached
x_outcomes ==
  {after_x \in move_world_x(pre, last.x) : game \in move_world_y(after_x, last.y)}

\* C32: calc_gravity makes yspeed -3 when it is 0 and takes 1 off it
\* otherwise; a move_world whose y phase finds the hero colliding with a
\* wall returns with yspeed 0, the wall hit from above or from below.
C32_GravityAndReset ==
  /\ last.op = "calc_gravity" =>
       game.world.yspeed = IF pre.world.yspeed = 0 THEN -3 ELSE pre.world.yspeed - 1
  /\ last.op = "move_world" =>
       \A after_x \in x_outcomes :
         IF y_hit_list(after_x, last.y) # {}
         THEN game.world.yspeed = 0
         ELSE game.world.yspeed = pre.world.yspeed

\* the hero hit a ceiling on the way up
C32_Witness ==
  /\ last.op = "move_world"
  /\ last.y > 0
  /\ \E after_x \in x_outcomes : y_hit_list(after_x, last.y) # {}
  /\ game.world.yspeed = 0

\* the fall damage of a landing at speed yspeed
fall_damage(yspeed) == -yspeed - 25

CeilingHitAtSpeed ==
  /\ last.op = "move_world"
  /\ pre.world.yspeed = 70
  /\ \E after_x \in x_outcomes : y_hit_list(after_x, last.y) # {}

\* the sprites of a group of the world before the last step whose centre is
\* closer to the bomb than its radius
reached_by(bomb, group) == in_blast(pre.world, bomb, group)

\* the bomb overlaps a wall before the last step
touches_wall(bomb) ==
  spritecollide(pre.world.sprites[bomb].rect, pre.world, pre.world.block_list) # {}

\* C36: det_bombs removes a bomb exactly when it overlaps a wall; the step
\* then completes with every enemy in reach damaged and every drop in
\* reach removed; a bomb that overlaps no wall stays and changes nothing.
\* (The amount hero.bomb_damage has no value in the source: the formula
\* asks that the enemies out of reach keep their hp and that the call
\* returns.)
C36_BombsDetonateOnWalls ==
  last.op = "det_bombs" =>
    /\ game.world.raised = "none"
    /\ \A bomb \in pre.world.bomb_list :
         IF touches_wall(bomb)
         THEN /\ bomb \notin game.world.bomb_list
              /\ bomb \notin game.world.all_sprites
              /\ reached_by(bomb, pre.world.drops_list) \cap game.world.drops_list = {}
              /\ \A e \in pre.world.enemy_list \ reached_by(bomb, pre.world.enemy_list) :
                   game.world.sprites[e].current_hp = pre.world.sprites[e].current_hp
         ELSE /\ bomb \in game.world.bomb_list
              /\ game.world.sprites = pre.world.sprites
              /\ game.world.drops_list = pre.world.drops_list

\* a detonation that reached no enemy
QuietDetonation ==
  /\ last.op = "det_bombs"
  /\ game.world.raised = "none"
  /\ \E bomb \in pre.world.bomb_list : touches_wall(bomb)

\* a wall of block_list lies within 2 pixels below the hero
on_platform(gm) ==
  \E block \in gm.world.block_list :
    LET wall == gm.world.sprites[block].rect
        hero == gm.hero.rect
    IN  /\ wall.x < hero.x + hero.w
        /\ hero.x < wall.x + wall.w
        /\ wall.y < hero.y + hero.h + 2
        /\ hero.y + 2 < wall.y + wall.h

\* the two flags of the hero
flags(gm) == <<gm.hero.jumping, gm.hero.double_jumping>>

\* C34: jump sets the world's yspeed to jump_height and hero.jumping only
\* when the hero is not jumping and stands within 2 pixels of a wall below
\* it; while jumping, it sets yspeed to double_jump_height and
\* double_jumping only when can_doublejump holds and double_jumping does
\* not, and changes nothing otherwise; the two flags are cleared by a
\* move_world whose y phase collides with y < 0 and by nothing else.
C34_JumpAndLand ==
  /\ last.op = "jump" =>
       IF ~pre.hero.jumping
       THEN IF on_platform(pre)
            THEN /\ game.world.yspeed = pre.hero.jump_height
                 /\ flags(game) = <<TRUE, pre.hero.double_jumping>>
            ELSE game = pre
       ELSE IF pre.hero.can_doublejump /\ ~pre.hero.double_jumping
            THEN /\ game.world.yspeed = pre.hero.double_jump_height
                 /\ flags(game) = <<TRUE, TRUE>>
            ELSE game = pre
  /\ last.op = "calc_gravity" => flags(game) = flags(pre)
  /\ last.op = "move_world" =>
       \A after_x \in x_outcomes :
         flags(game) = IF y_hit_list(after_x, last.y) # {} /\ last.y < 0
                       THEN <<FALSE, FALSE>>
                       ELSE flags(pre)

\* a second jump in the air, after which a further jump does nothing
C34_Witness ==
  /\ last.op = "jump"
  /\ flags(pre) = <<TRUE, TRUE>>
  /\ pre.hero.can_doublejump
  /\ game = pre

\* the hero hits a ceiling while jumping and keeps jumping
CeilingKeepsJumping ==
  /\ last.op = "move_world"
  /\ last.y > 0
  /\ \E after_x \in x_outcomes : y_hit_list(after_x, last.y) # {}
  /\ game.hero.jumping

\* the hero lands from a jump
LandedFromJump ==
  /\ last.op = "move_world"
  /\ pre.hero.jumping
  /\ ~game.hero.jumping

\* the distance the wall has gone along x and along y in the last step
gone_x(block) == game.world.sprites[block].rect.x - pre.world.sprites[block].rect.x
gone_y(block) == game.world.sprites[block].rect.y - pre.world.sprites[block].rect.y

\* the walls that overlap the hero once they have gone dx along x and dy
\* along y from where they were before the last step
seen_at(dx, dy) ==
  {block \in pre.world.block_list :
     LET wall == pre.world.sprites[block].rect
         hero == pre.hero.rect
     IN  /\ wall.x + dx < hero.x + hero.w
         /\ hero.x < wall.x + dx + wall.w
         /\ wall.y + dy < hero.y + hero.h
         /\ hero.y < wall.y + dy + wall.h}

\* C35: in move_world the y phase starts from the positions the x phase
\* ended with: all walls have gone the same distance dx along x (the
\* translation by x and its corrections), the y phase collides with
\* exactly the walls that overlap the hero at dx along x and y along y,
\* and without such a wall every wall has gone y along y and yspeed is
\* kept, with one yspeed is 0.
C35_XBeforeY ==
  last.op = "move_world" =>
    \E dx \in -140..140 :
      /\ \A block \in pre.world.block_list : gone_x(block) = dx
      /\ IF seen_at(dx, last.y) = {}
         THEN /\ \A block \in pre.world.block_list : gone_y(block) = last.y
              /\ game.world.yspeed = pre.world.yspeed
         ELSE game.world.yspeed = 0

\* the x phase was corrected and the y phase met a wall that it would have
\* missed at the uncorrected place
C35_Witness ==
  /\ last.op = "move_world"
  /\ \E block \in pre.world.block_list :
       /\ gone_x(block) # last.x
       /\ seen_at(gone_x(block), last.y) # {}
       /\ seen_at(last.x, last.y) # seen_at(gone_x(block), last.y)

\* the hero stands on a wall: its bottom edge is the top edge of a wall
\* under it
standing(gm) ==
  \E block \in gm.world.block_list :
    LET wall == gm.world.sprites[block].rect
        hero == gm.hero.rect
    IN  /\ wall.x < hero.x + hero.w
        /\ hero.x < wall.x + wall.w
        /\ wall.y = hero.y + hero.h

\* the places of the walls of a world
wall_places(world) ==
  [block \in world.block_list |-> <<world.sprites[block].rect.x, world.sprites[block].rect.y>>]

\* a frame without input finds the hero standing on a wall, the world at
\* rest and no bomb in flight
at_rest(gm) ==
  /\ gm.world.array_parsed
  /\ standing(gm)
  /\ gm.world.xspeed = 0
  /\ gm.world.yspeed = 0
  /\ gm.world.bomb_list = {}

\* C37: a World.update entered with the hero standing on a wall, xspeed 0
\* and yspeed 0 leaves every wall and every node where it was, ends with
\* yspeed 0 and deals no fall damage (the hp changes only if an enemy
\* touches the hero).
C37_StandingStill ==
  (last.op = "update" /\ at_rest(pre)) =>
     /\ wall_places(game.world) = wall_places(pre.world)
     /\ game.world.nodes = pre.world.nodes
     /\ game.world.yspeed = 0
     /\ \/ game.hero.hp = pre.hero.hp
        \/ spritecollide(game.hero.rect, game.world, game.world.enemy_list) # {}

\* two updates in a row with the hero at rest on the floor
C37_Witness ==
  /\ last.op = "update"
  /\ at_rest(pre)
  /\ at_rest(game)
  /\ game.hero.hp = pre.hero.hp
  /\ last.tick >= 2

\* the speed of the world that goes with the hero's direction
speed_for(gm) ==
  IF gm.hero.moving_left THEN gm.hero.actual_speed
  ELSE IF gm.hero.moving_right THEN -gm.hero.actual_speed
  ELSE 0

\* C38: whatever LEFT and RIGHT key events InGame has handled, moving_left
\* and moving_right are not both set, xspeed is actual_speed when
\* moving_left, -actual_speed when moving_right and 0 otherwise, it is 0
\* when neither key is held, and the release of one key while the other is
\* held leaves the world moving in the direction of the key still held.
C38_KeysAndSpeed ==
  /\ ~(game.hero.moving_left /\ game.hero.moving_right)
  /\ game.world.xspeed = speed_for(game)
  /\ (game.world.xspeed > 0) = game.hero.moving_left
  /\ (game.world.xspeed < 0) = game.hero.moving_right
  /\ (~game.left_pressed /\ ~game.right_pressed) => game.world.xspeed = 0
  /\ (last.op = "stop_moving_left" /\ pre.right_pressed) =>
        game.hero.moving_right /\ game.world.xspeed = -game.hero.actual_speed
  /\ (last.op = "stop_moving_right" /\ pre.left_pressed) =>
        game.hero.moving_left /\ game.world.xspeed = game.hero.actual_speed

\* LEFT is released while RIGHT, pressed first, is still held: the world,
\* which moved with LEFT, moves with RIGHT
C38_Witness ==
  /\ last.op = "stop_moving_left"
  /\ pre.right_pressed
  /\ pre.hero.moving_left
  /\ game.hero.moving_right
  /\ game.world.xspeed = -10

\* the row is the template row behind n "&" characters
behind_blanks(row, template_row, n) ==
  /\ Len(row) = n + Len(template_row)
  /\ \A j \in 1..n : row[j] = "&"
  /\ \A j \in 1..Len(template_row) : row[n + j] = template_row[j]

\* C39: the grid of align_doors has as many rows as the rooms have layout
\* rows together, and for every room there is one number n such that each
\* of its rows in the grid is its template row behind n "&" characters.
C39_RoomsKeepShape ==
  aligned.pc = "aligned" =>
    /\ Len(aligned.room_array) = rows_before(aligned.room_list, Len(aligned.room_list) + 1)
    /\ \A k \in 1..Len(aligned.room_list) :
         \E n \in 0..Len(aligned.room_array[rows_before(aligned.room_list, k) + 1]) :
           \A r \in 1..rows_of(aligned.room_list[k]) :
             behind_blanks(aligned.room_array[rows_before(aligned.room_list, k) + r],
                           room_dict[aligned.room_list[k]][r + 1], n)

\* a grid of three rooms in which the second room was pushed right as a
\* whole
C39_Witness ==
  /\ aligned.pc = "aligned"
  /\ Len(aligned.room_list) >= 3
  /\ \A r \in 1..rows_of(aligned.room_list[2]) :
       aligned.room_array[rows_before(aligned.room_list, 2) + r][1] = "&"
  /\ room_dict[aligned.room_list[2]][2][1] # "&"

\* C40: in the main loop no World.update runs on a world whose
\* array_parsed is still False.
C40_ParsedBeforeUpdate ==
  last.op = "update" => pre.world.array_parsed

\* the first update of a game ran before the first draw and left the
\* unparsed world with the speed of a fall
UpdatedUnparsed ==
  /\ last.op = "update"
  /\ ~pre.world.array_parsed
  /\ ~game.world.array_parsed
  /\ game.world.yspeed = -3

====
